---- MODULE Spec2Model ----
(***************************************************************************)
(* A model of the fz command-line client: the credential store, the token  *)
(* manager, the HTTP engine (FZClient.request) and the multipart upload    *)
(* engine, translated from src/src/fz_cli.                                 *)
(***************************************************************************)
EXTENDS Integers, Sequences, FiniteSets, TLC

VARIABLES
    now,     \* int(time.time())
    tm,      \* the TokenManager of the engine
    eng,     \* the FZClient: _resolved, the FZ_CLIENT_ID/FZ_CLIENT_SECRET environment
    file,    \* the credentials file and its directory
    rq,      \* per thread: the FZClient.request call that thread is executing
    nreq,    \* how many requests the command has started on the main thread
    faults,  \* how many failing answers the environment may still give
    up,      \* upload_file: the coordinator's locals, the aborted event, the SIGINT handler
    fut,     \* upload_file: the upload pool's futures, one per part
    rep,     \* upload_file: the report pool's futures, one per reported part
    srv,     \* what the backend has been sent for the current upload
    cmd,     \* the command that drives the uploads, and the process exit code
    cli,     \* other fz processes at work on the same credentials file
    op,      \* the token manager call made last: its inputs and its result
    dev,     \* browser_login: the device authorization flow
    wt,      \* a command waiting for a run: _wait_for_run, runs watch
    pg,      \* _fetch_all_results: the pages of a run's results
    pl,      \* upload_file: the two thread pools on an upload of many parts
    mf,      \* upload_files: the driver of the uploads of several files
    bk,      \* FZClient.request: a transient answer and the wait that follows it
    dl,      \* the backoff functions of the retrying layers: one computed delay
    cr,      \* save_credentials followed by load_credentials: the record and what came back
    dr       \* run_cmd and batch_cmd: the uploads of a set of files and the run created after them

evars == <<now, tm, eng, file, rq, nreq, faults>>
\* the state of the commands around the engines
xvars == <<wt, pg, pl, mf, bk, dl, cr, dr>>
ovars == <<op, dev, xvars>>
uvars == <<up, fut, rep, srv, cmd, cli, ovars>>
vars == <<now, tm, eng, file, rq, nreq, faults, up, fut, rep, srv, cmd, cli, op, dev, xvars>>

\* Python's None (and a missing optional string)
None == "None"
\* a missing optional integer
NoInt == -1

(***************************************************************************)
(* Bounds of the model.                                                    *)
(***************************************************************************)
\* the clock starts here
StartTime == 1000
\* the clock advances in steps of TickStep, at most up to MaxNow
TickStep == 1800
MaxTicks == 1
\* requests one command sends on the main thread
MaxRequests == 2
\* failing answers the environment gives in a run of the engine specification
EngineFaults == 4

(***************************************************************************)
(* constants.py                                                            *)
(***************************************************************************)
EXIT_SUCCESS == 0
EXIT_GENERAL_ERROR == 1
EXIT_AUTH_FAILURE == 2
EXIT_PERMISSION_DENIED == 3
EXIT_NOT_FOUND == 4
EXIT_CONFLICT == 5
EXIT_NETWORK_ERROR == 10

(***************************************************************************)
(* auth/credentials.py: the credentials file.  Its text is a sequence of   *)
(* JSON tokens; json.dumps writes them and json.loads parses them.         *)
(***************************************************************************)
MODE_0600 == 384
\* the mode of a file created by open(..., "w") under the usual umask 022
MODE_0644 == 420

Punct(c) == [k |-> c, t |-> "punct", s |-> "", n |-> 0]
StrField(key, v) ==
    IF v = None THEN [k |-> key, t |-> "null", s |-> "", n |-> 0]
    ELSE [k |-> key, t |-> "str", s |-> v, n |-> 0]
IntField(key, v) == [k |-> key, t |-> "int", s |-> "", n |-> v]

\* the payload dict built by save_credentials: client_id only when truthy
Payload(access_token, refresh_token, expires_at, api_url, client_id) ==
    <<StrField("access_token", access_token),
      StrField("refresh_token", refresh_token),
      IntField("expires_at", expires_at),
      StrField("api_url", api_url)>>
    \o (IF client_id # None /\ client_id # ""
        THEN <<StrField("client_id", client_id)>> ELSE <<>>)

\* json.dumps(payload, indent=2) + "\n"
Dumps(payload) == <<Punct("{")>> \o payload \o <<Punct("}")>>

\* json.loads accepts exactly one object: "{", members, "}"
IsJsonObject(text) ==
    /\ Len(text) >= 2
    /\ text[1] = Punct("{")
    /\ text[Len(text)] = Punct("}")
    /\ \A i \in 2..(Len(text) - 1) : text[i].t # "punct"

\* the dict json.loads returns: the members of the object
Loads(text) == {text[i] : i \in 2..(Len(text) - 1)}

DictHas(d, key) == \E e \in d : e.k = key
DictEntry(d, key) == CHOOSE e \in d : e.k = key
\* d.get(key) for a string member (None when missing or null)
DictStr(d, key) ==
    IF DictHas(d, key) /\ DictEntry(d, key).t = "str" THEN DictEntry(d, key).s ELSE None
\* d.get(key, default) for an integer member
DictInt(d, key, default) ==
    IF DictHas(d, key) /\ DictEntry(d, key).t = "int" THEN DictEntry(d, key).n ELSE default

NoFile == [dir |-> FALSE, exists |-> FALSE, text |-> <<>>, mode |-> 0]

\* CREDENTIALS_PATH.parent.mkdir(parents=True, exist_ok=True)
Mkdir(f) == [f EXCEPT !.dir = TRUE]
\* open(path, "w"): create or truncate; an existing file keeps its mode
OpenTrunc(f) ==
    [f EXCEPT !.exists = TRUE, !.text = <<>>,
              !.mode = IF f.exists THEN f.mode ELSE MODE_0644]
\* write(2) of the whole text at offset 0 of the open file
WriteAt0(f, text) ==
    [f EXCEPT !.text = text \o SubSeq(f.text, Len(text) + 1, Len(f.text))]
\* a chmod that leaves the mode as it is
Chmod_Keep(f, mode) == f
\* os.chmod(path, mode)
Chmod(f, mode) == [f EXCEPT !.mode = mode]

\* save_credentials, run without interruption
save_credentials(f, access_token, refresh_token, expires_at, api_url, client_id) ==
    Chmod(WriteAt0(OpenTrunc(Mkdir(f)),
                   Dumps(Payload(access_token, refresh_token, expires_at,
                                 api_url, client_id))),
          MODE_0600)

\* load_credentials: found = FALSE is the None result
load_credentials(f) ==
    IF ~f.exists THEN [found |-> FALSE, data |-> {}]
    ELSE IF ~IsJsonObject(f.text) THEN [found |-> FALSE, data |-> {}]
    ELSE IF ~DictHas(Loads(f.text), "access_token") THEN [found |-> FALSE, data |-> {}]
    ELSE [found |-> TRUE, data |-> Loads(f.text)]

(***************************************************************************)
(* auth/token.py: TokenManager                                             *)
(***************************************************************************)
MAX_REFRESH_RETRIES == 3
TRANSIENT_STATUSES == {429, 502, 503, 504}
\* the skew buffer of is_expired
EXPIRY_SKEW == 60
\* the expiry assumed when a refresh answer carries neither expires_in nor exp
DEFAULT_REFRESH_TTL == 300

API_URL == "https://api"

\* TokenManager.__init__
NewTokenManager ==
    [access_token |-> None, refresh_token |-> None, expires_at |-> 0,
     client_id |-> None, api_url |-> API_URL]

\* the exp claim of a token, NoInt when the token does not decode or has none
\* (TokenManager._decode followed by claims.get("exp"))
JwtExp(token) == IF token = "at.jwt" THEN 4600 ELSE NoInt

\* TokenManager.load_from_credentials, given the dict load_credentials found
load_from_credentials(m, data) ==
    [m EXCEPT !.access_token = DictStr(data, "access_token"),
              !.refresh_token = DictStr(data, "refresh_token"),
              !.expires_at = DictInt(data, "expires_at", 0),
              !.client_id = DictStr(data, "client_id"),
              !.api_url = IF DictStr(data, "api_url") # None
                          THEN DictStr(data, "api_url") ELSE m.api_url]

\* TokenManager.set_tokens: the new manager state
set_tokens(m, access_token, refresh_token, expires_in, client_id, t) ==
    [m EXCEPT !.access_token = access_token,
              !.refresh_token = refresh_token,
              !.expires_at = t + expires_in,
              !.client_id = IF client_id # None THEN client_id ELSE m.client_id]

\* a save that writes no refresh token
Persist_NoRotation(f, m) ==
    save_credentials(f, m.access_token, None, m.expires_at, m.api_url, m.client_id)

\* the save_credentials call that ends set_tokens and a successful refresh
Persist(f, m) ==
    save_credentials(f, m.access_token, m.refresh_token, m.expires_at,
                     m.api_url, m.client_id)

\* is_expired without the skew buffer
is_expired_NoSkew(m, t) == m.expires_at < t

\* TokenManager.is_expired
is_expired(m, t) == m.expires_at - EXPIRY_SKEW < t

\* TokenManager.get_access_token up to its call of refresh():
\* "none" = returns None, "refresh" = calls refresh() first, "token" = returns it
GetAccessToken(m, t) ==
    IF m.access_token = None THEN "none"
    ELSE IF is_expired(m, t)
         THEN (IF m.refresh_token # None THEN "refresh" ELSE "none")
         ELSE "token"

\* The answers of POST /oauth/token to a refresh.  refresh_token "Absent" = the
\* body has no such key; expires_in NoInt = the body has no such key.
RefreshBodies ==
    {[json |-> TRUE, access_token |-> "at.2", refresh_token |-> "rt.2", expires_in |-> 1800],
     [json |-> TRUE, access_token |-> "at.2", refresh_token |-> "Absent", expires_in |-> 30],
     [json |-> TRUE, access_token |-> "at.jwt", refresh_token |-> "rt.2", expires_in |-> NoInt],
     [json |-> TRUE, access_token |-> "at.2", refresh_token |-> None, expires_in |-> 0],
     [json |-> TRUE, access_token |-> None, refresh_token |-> "Absent", expires_in |-> NoInt],
     [json |-> FALSE, access_token |-> None, refresh_token |-> "Absent", expires_in |-> NoInt]}
NoBody == [json |-> FALSE, access_token |-> None, refresh_token |-> "Absent", expires_in |-> NoInt]

TokenAnswers ==
    {[kind |-> "neterr", status |-> 0, body |-> NoBody]}
    \cup {[kind |-> "resp", status |-> 200, body |-> b] : b \in RefreshBodies}
    \cup {[kind |-> "resp", status |-> s, body |-> NoBody] : s \in {400, 503}}

\* refresh(), lines 140-160: the manager after an answer with status 200
RefreshedManager(m, body, t) ==
    [m EXCEPT !.access_token = body.access_token,
              !.refresh_token = IF body.refresh_token = "Absent"
                                THEN m.refresh_token ELSE body.refresh_token,
              !.expires_at = IF body.expires_in # NoInt /\ body.expires_in # 0
                             THEN t + body.expires_in
                             ELSE IF JwtExp(body.access_token) # NoInt
                                  THEN JwtExp(body.access_token)
                                  ELSE t + DEFAULT_REFRESH_TTL]

\* refresh(), lines 132-149: does the final answer make refresh return True
RefreshSucceeds(ans) ==
    /\ ans.kind = "resp"
    /\ ans.status = 200
    /\ ans.body.json
    /\ ans.body.access_token # None

\* a refresh that assigns the fields before it looks for the access_token
AfterRefreshAnswer_Eager(m, ans, t) ==
    IF ans.kind = "resp" /\ ans.status = 200 /\ ans.body.json
    THEN RefreshedManager(m, ans.body, t) ELSE m

\* refresh(), lines 132-160: the manager after the final answer; every
\* return False comes before the first assignment of line 151
AfterRefreshAnswer(m, ans, t) ==
    IF RefreshSucceeds(ans) THEN RefreshedManager(m, ans.body, t) ELSE m

\* refresh() and exchange_client_credentials: does attempt a end the retry loop
TokenLoopEnds(ans, a, maxAttempts) ==
    IF ans.kind = "neterr" THEN a = maxAttempts - 1
    ELSE ans.status \notin TRANSIENT_STATUSES \/ a = maxAttempts - 1

(***************************************************************************)
(* errors.py                                                               *)
(***************************************************************************)
\* A WWW-Authenticate header: the error word it carries and its letter case.
\* word "" is a response without the header (headers.get(..., "")).
NoWww == [word |-> "", cased |-> "lower"]
WwwValues ==
    {NoWww,
     [word |-> "revoked", cased |-> "lower"],
     [word |-> "revoked", cased |-> "mixed"],
     [word |-> "expired", cased |-> "mixed"]}
\* str.lower()
Lower(h) == [h EXCEPT !.cased = "lower"]
\* word in header: a case-sensitive substring test against a lower-case word
Contains(h, word) == h.cased = "lower" /\ h.word = word

NoResp == [kind |-> "none", status |-> 0, www |-> NoWww, detail |-> None]

\* an error handler without _STATUS_MAP: every status exits 1
handle_api_error_Flat(resp) ==
    [code |-> EXIT_GENERAL_ERROR, msg |-> "Error", hint |-> None]

\* handle_api_error: the exit code, message and hint
handle_api_error(resp) ==
    LET status == resp.status
        base ==
            IF status = 401
            THEN [code |-> EXIT_AUTH_FAILURE,
                  msg |-> IF resp.detail # None THEN resp.detail
                          ELSE "Authentication failed (401)",
                  hint |-> "Run fz auth login to re-authenticate."]
            ELSE IF status = 403
            THEN [code |-> EXIT_PERMISSION_DENIED,
                  msg |-> IF resp.detail # None THEN resp.detail
                          ELSE "Permission denied (403)",
                  hint |-> None]
            ELSE IF status = 404
            THEN [code |-> EXIT_NOT_FOUND,
                  msg |-> IF resp.detail # None THEN resp.detail
                          ELSE "Resource not found (404)",
                  hint |-> None]
            ELSE IF status = 409
            THEN [code |-> EXIT_CONFLICT,
                  msg |-> IF resp.detail # None THEN resp.detail ELSE "Conflict (409)",
                  hint |-> None]
            ELSE IF 400 <= status /\ status < 500
            THEN [code |-> EXIT_GENERAL_ERROR,
                  msg |-> IF resp.detail # None THEN resp.detail ELSE "Client error",
                  hint |-> None]
            ELSE [code |-> EXIT_GENERAL_ERROR,
                  msg |-> IF resp.detail # None THEN resp.detail ELSE "Server error",
                  hint |-> "The API returned an unexpected error. Try again later."]
    IN  IF status = 401 /\ Contains(Lower(resp.www), "revoked")
        THEN [base EXCEPT !.msg = "Authentication failed - token has been revoked",
                          !.hint = "Create new credentials and run fz auth login."]
        ELSE IF status = 401 /\ Contains(Lower(resp.www), "expired")
        THEN [base EXCEPT !.msg = "Authentication failed - token has expired",
                          !.hint = "Run fz auth login to re-authenticate."]
        ELSE base

\* handle_network_error
handle_network_error ==
    [code |-> EXIT_NETWORK_ERROR, msg |-> "Network error",
     hint |-> "Check your network connection and API URL."]

(***************************************************************************)
(* client.py: FZClient                                                     *)
(***************************************************************************)
MAX_TRANSIENT_RETRIES == 3
\* tokens.get("expires_in", 3600) in _exchange_m2m
M2M_DEFAULT_TTL == 3600

Threads == {"main", "r1", "r2"}

\* the threads' request records; ghost fields count what the call has done
NewRequest(kind) ==
    [pc |-> "hdr", kind |-> kind, ret |-> None, attempt |-> 0, rattempt |-> 0,
     phase |-> "retry", tok |-> None, tokExpired |-> FALSE, gatRefreshFailed |-> FALSE,
     loopResp |-> NoResp, replayResp |-> NoResp,
     exit |-> NoInt, msg |-> None, hint |-> None, exc |-> None,
     sends |-> 0, replays |-> 0, recoveries |-> 0]
IdleRequest == [NewRequest(None) EXCEPT !.pc = "idle"]

\* FZClient._is_m2m
IsM2M == eng.resolved /\ eng.env_m2m

\* sys.exit(code) after the error lines are printed
ExitWith(r, e) == [r EXCEPT !.pc = "exit", !.exit = e.code, !.msg = e.msg, !.hint = e.hint]
\* an exception leaves request()
Raise(r, exc) == [r EXCEPT !.pc = "raised", !.exc = exc]

NotAuthenticated ==
    [code |-> EXIT_AUTH_FAILURE,
     msg |-> "Not authenticated. Run fz auth login first.", hint |-> None]
NoValidToken ==
    [code |-> EXIT_AUTH_FAILURE,
     msg |-> "No valid access token. Run fz auth login.", hint |-> None]

\* an error check that lets a 400 through
ErrorCheck_Above400(r, resp) ==
    IF resp.status > 400 THEN ExitWith(r, handle_api_error(resp))
    ELSE [r EXCEPT !.pc = "returned"]

\* request(), "Check for errors": exit on status >= 400, else return resp
ErrorCheck(r, resp) ==
    IF resp.status >= 400 THEN ExitWith(r, handle_api_error(resp))
    ELSE [r EXCEPT !.pc = "returned"]

\* self._client.request(..., headers={"Authorization": "Bearer <token>"}) is sent
SendWith(r, m, t) ==
    [r EXCEPT !.pc = "send", !.tok = m.access_token, !.tokExpired = is_expired(m, t),
              !.sends = @ + 1,
              !.replays = IF r.phase = "replay" THEN @ + 1 ELSE @]

EnterRefresh(r, ret) == [r EXCEPT !.pc = "refresh", !.ret = ret, !.rattempt = 0]
EnterExchange(r, ret) == [r EXCEPT !.pc = "exch", !.ret = ret, !.rattempt = 0]

\* _headers(): token = get_access_token() a second time, after the re-exchange
SecondToken(r, m, t) ==
    CASE GetAccessToken(m, t) = "token" -> SendWith(r, m, t)
      [] GetAccessToken(m, t) = "refresh" -> EnterRefresh(r, "gat2")
      [] OTHER -> ExitWith(r, NoValidToken)

\* _headers(): token = get_access_token(), then the M2M re-exchange or the exit
FirstToken(r, m, t, isM2M) ==
    CASE GetAccessToken(m, t) = "token" -> SendWith(r, m, t)
      [] GetAccessToken(m, t) = "refresh" -> EnterRefresh(r, "gat1")
      [] OTHER -> IF isM2M THEN EnterExchange(r, "hdr2") ELSE ExitWith(r, NoValidToken)

\* get_access_token() after its refresh() call: "return self._access_token"
ReturnAfterRefresh(r, m, ok, t) ==
    [SendWith(r, m, t) EXCEPT !.gatRefreshFailed = ~ok]

\* where a finished refresh() returns to
AfterRefresh(r, m, ok, t) ==
    IF r.ret = "recover"
    THEN (IF ok THEN [r EXCEPT !.pc = "hdr", !.phase = "replay"]
          ELSE ErrorCheck(r, r.loopResp))
    ELSE ReturnAfterRefresh(r, m, ok, t)

\* where a finished _exchange_m2m() returns to; outcome "ok", "click" (a
\* ClickException) or "value" (resp.json() raised ValueError)
AfterExchange(r, m, outcome, t) ==
    IF outcome = "ok"
    THEN CASE r.ret = "resolve" -> FirstToken(r, m, t, TRUE)
           [] r.ret = "hdr2" -> SecondToken(r, m, t)
           [] OTHER -> [r EXCEPT !.pc = "hdr", !.phase = "replay"]
    ELSE IF outcome = "click" /\ r.ret = "recover" THEN ErrorCheck(r, r.loopResp)
    ELSE Raise(r, IF outcome = "click" THEN "ClickException" ELSE "ValueError")

\* RequestWwwAuth without the lower(): the header is tested as it was sent
RequestWwwAuth_NoLower(resp) == resp.www

\* request(): www_auth = resp.headers.get("www-authenticate", "").lower()
RequestWwwAuth(resp) == Lower(resp.www)

\* request(), "Retry once on 401": after the transient-retry loop
AfterLoop(r, resp, m, isM2M) ==
    IF resp.status = 401 /\ ~Contains(RequestWwwAuth(resp), "revoked")
    THEN LET r1 == [r EXCEPT !.recoveries = @ + 1]
         IN  IF isM2M THEN EnterExchange(r1, "recover")
             ELSE IF m.refresh_token = None THEN ErrorCheck(r1, resp)
             ELSE EnterRefresh(r1, "recover")
    ELSE ErrorCheck(r, resp)

\* AfterReplay that treats the replay's answer like the first one: a 401
\* starts another recovery
AfterReplay_Again(r, resp, m, isM2M) == AfterLoop(r, resp, m, isM2M)

\* request(): the answer to the replayed request
AfterReplay(r, resp, m, isM2M) == ErrorCheck(r, resp)

\* The answers of the API to a request.
ApiStatuses == {200, 400, 401, 403, 404, 409, 429, 500, 503}
ApiAnswers ==
    {[kind |-> "neterr", status |-> 0, www |-> NoWww, detail |-> None]}
    \cup {[kind |-> "resp", status |-> 200, www |-> NoWww, detail |-> None]}
    \cup {[kind |-> "resp", status |-> s, www |-> NoWww, detail |-> d] :
            s \in ApiStatuses \ {200, 401}, d \in {None, "detail"}}
    \cup {[kind |-> "resp", status |-> 401, www |-> w, detail |-> d] :
            w \in WwwValues, d \in {None, "detail"}}
IsFault(ans) == ans.kind = "neterr" \/ ans.status # 200

\* The answers of POST /oauth/token to a client_credentials exchange.
ExchangeAnswers ==
    {[kind |-> "neterr", status |-> 0, body |-> NoBody]}
    \cup {[kind |-> "resp", status |-> s, body |-> NoBody] : s \in {401, 503}}
    \cup {[kind |-> "resp", status |-> 200, body |-> b] :
            b \in {[json |-> TRUE, access_token |-> "m2m.1", refresh_token |-> "Absent",
                    expires_in |-> NoInt],
                   [json |-> TRUE, access_token |-> "m2m.2", refresh_token |-> "Absent",
                    expires_in |-> 30],
                   [json |-> TRUE, access_token |-> None, refresh_token |-> "Absent",
                    expires_in |-> NoInt],
                   NoBody}}

\* exchange_client_credentials, lines 57-69, on the answer that ended its loop
ExchangeOutcome(ans) ==
    IF ans.kind = "neterr" \/ ans.status # 200 THEN "click"
    ELSE IF ~ans.body.json THEN "value"
    ELSE IF ans.body.access_token = None THEN "click"
    ELSE "ok"

\* _exchange_m2m: set_tokens(access_token, None, tokens.get("expires_in", 3600))
ExchangedManager(m, body, t) ==
    set_tokens(m, body.access_token, None,
               IF body.expires_in = NoInt THEN M2M_DEFAULT_TTL ELSE body.expires_in,
               None, t)

(***************************************************************************)
(* The steps of one FZClient.request call on thread t.                     *)
(***************************************************************************)
\* _headers(): _resolve_auth() and get_access_token(), up to a network call
Headers(t) ==
    /\ rq[t].pc = "hdr"
    /\ IF ~eng.resolved
       THEN /\ eng' = [eng EXCEPT !.resolved = TRUE]
            /\ IF eng.env_m2m
               THEN /\ rq' = [rq EXCEPT ![t] = EnterExchange(rq[t], "resolve")]
                    /\ tm' = tm
               ELSE LET c == load_credentials(file)
                        m == load_from_credentials(tm, c.data)
                    IN  IF c.found
                        THEN /\ tm' = m
                             /\ rq' = [rq EXCEPT ![t] = FirstToken(rq[t], m, now, FALSE)]
                        ELSE /\ tm' = tm
                             /\ rq' = [rq EXCEPT ![t] = ExitWith(rq[t], NotAuthenticated)]
       ELSE /\ rq' = [rq EXCEPT ![t] = FirstToken(rq[t], tm, now, IsM2M)]
            /\ UNCHANGED <<eng, tm>>
    /\ UNCHANGED <<now, file, nreq, faults, uvars>>

\* TokenManager.refresh(): one POST /oauth/token and what follows its answer
RefreshAttempt(t, ans) ==
    /\ rq[t].pc = "refresh"
    /\ faults > 0 \/ RefreshSucceeds(ans)
    /\ faults' = IF RefreshSucceeds(ans) THEN faults ELSE faults - 1
    /\ IF ~TokenLoopEnds(ans, rq[t].rattempt, MAX_REFRESH_RETRIES)
       THEN /\ rq' = [rq EXCEPT ![t].rattempt = @ + 1]
            /\ UNCHANGED <<tm, file>>
       ELSE IF RefreshSucceeds(ans)
       THEN LET m == RefreshedManager(tm, ans.body, now)
            IN  /\ tm' = m
                /\ file' = Persist(file, m)
                /\ rq' = [rq EXCEPT ![t] = AfterRefresh(rq[t], m, TRUE, now)]
       ELSE /\ rq' = [rq EXCEPT ![t] = AfterRefresh(rq[t], tm, FALSE, now)]
            /\ UNCHANGED <<tm, file>>
    /\ UNCHANGED <<now, eng, nreq, uvars>>

\* _exchange_m2m(): one POST /oauth/token and what follows its answer
ExchangeAttempt(t, ans) ==
    /\ rq[t].pc = "exch"
    /\ faults > 0 \/ ExchangeOutcome(ans) = "ok"
    /\ faults' = IF ExchangeOutcome(ans) = "ok" THEN faults ELSE faults - 1
    /\ IF ~TokenLoopEnds(ans, rq[t].rattempt, MAX_REFRESH_RETRIES)
       THEN /\ rq' = [rq EXCEPT ![t].rattempt = @ + 1]
            /\ UNCHANGED <<tm, file>>
       ELSE IF ExchangeOutcome(ans) = "ok"
       THEN LET m == ExchangedManager(tm, ans.body, now)
            IN  /\ tm' = m
                /\ file' = Persist(file, m)
                /\ rq' = [rq EXCEPT ![t] = AfterExchange(rq[t], m, "ok", now)]
       ELSE /\ rq' = [rq EXCEPT ![t] = AfterExchange(rq[t], tm, ExchangeOutcome(ans), now)]
            /\ UNCHANGED <<tm, file>>
    /\ UNCHANGED <<now, eng, nreq, uvars>>

\* a retry loop that never reaches its last attempt
LastAttempt_Never(attempt) == FALSE

\* request(): for attempt in range(_MAX_TRANSIENT_RETRIES), lines 130, 141
\* and 152: the attempt after which nothing is retried
LastAttempt(attempt) == attempt = MAX_TRANSIENT_RETRIES - 1

\* request(): the answer to the request that was sent
Respond(t, ans) ==
    /\ rq[t].pc = "send"
    /\ faults > 0 \/ ~IsFault(ans)
    /\ faults' = IF IsFault(ans) THEN faults - 1 ELSE faults
    /\ LET r == rq[t]
           last == LastAttempt(r.attempt)
       IN  rq' = [rq EXCEPT ![t] =
             IF r.phase = "replay"
             THEN (IF ans.kind = "neterr" THEN ExitWith(r, handle_network_error)
                   ELSE AfterReplay([r EXCEPT !.replayResp = ans], ans, tm, IsM2M))
             ELSE IF ans.kind = "neterr"
             THEN (IF last THEN ExitWith(r, handle_network_error)
                   ELSE [r EXCEPT !.pc = "hdr", !.attempt = @ + 1])
             ELSE IF ans.status \in TRANSIENT_STATUSES /\ ~last
             THEN [r EXCEPT !.pc = "hdr", !.attempt = @ + 1]
             ELSE AfterLoop([r EXCEPT !.loopResp = ans], ans, tm, IsM2M)]
    /\ UNCHANGED <<now, tm, eng, file, nreq, uvars>>

\* a command calls fz.get / fz.post / ... on the main thread
StartRequest ==
    /\ rq["main"].pc \in {"idle", "returned"}
    /\ nreq < MaxRequests
    /\ nreq' = nreq + 1
    /\ rq' = [rq EXCEPT !["main"] = NewRequest("api")]
    /\ UNCHANGED <<now, tm, eng, file, faults, uvars>>

\* time passes
Tick ==
    /\ now + TickStep <= StartTime + MaxTicks * TickStep
    /\ now' = now + TickStep
    /\ UNCHANGED <<tm, eng, file, rq, nreq, faults, uvars>>

(***************************************************************************)
(* upload.py: upload_file, its two worker pools, and upload_files          *)
(***************************************************************************)
\* parts of the largest file, and the part size init answers
MaxParts == 2
PartSize == 2
\* config: upload.concurrency and upload.retry_attempts
Concurrency == 2
MaxPartRetries == 2
\* files given to one command
MaxFiles == 1
\* failing answers the environment gives in a run of the upload specification
UploadFaults == 2

Parts == 1..MaxParts
ReportWorkers == {"r1", "r2"}
\* the sizes of the files uploaded: the empty file, and a file of MaxParts parts
FileSizes == {0, MaxParts * PartSize - 1}

NoFuture == [st |-> "none", attempt |-> 0, etag |-> "", size |-> 0]
\* size: the sizeBytes of the acknowledgement; acked: the backend answered it
NoReport == [st |-> "none", w |-> None, code |-> NoInt, size |-> 0, acked |-> FALSE]
NoServer == [partsUploaded |-> 0, acks |-> [p \in Parts |-> 0]]
NoUpload ==
    [pc |-> "none", file_size |-> 0, total_parts |-> 0, single |-> FALSE,
     has_id |-> FALSE, resumed |-> FALSE, urls |-> {}, uploaded_parts |-> <<>>,
     first_error |-> None, cur |-> 0, consumed |-> {}, report_futures |-> <<>>,
     ri |-> 1, handler |-> "default", ctrl_c |-> 0, aborted |-> FALSE,
     completes |-> 0, deletes |-> 0, unwind |-> None, code |-> NoInt]
NewUpload == [NoUpload EXCEPT !.pc = "start"]
NoCommand ==
    [pc |-> "none", nfiles |-> 0, resume |-> FALSE, idx |-> 0, documents |-> 0,
     exit |-> NoInt, ended |-> <<>>]

\* totalParts as the backend computes it for a file
TotalParts(size) == IF size = 0 THEN 1 ELSE (size + PartSize - 1) \div PartSize

Min(a, b) == IF a < b THEN a ELSE b
Max(a, b) == IF a < b THEN b ELSE a
\* parts that are all of the part size
ChunkLen_Whole(pn, file_size) == PartSize

\* upload_file lines 211-212 and _upload_part's f.seek(offset); f.read(size)
ChunkLen(pn, file_size) ==
    LET offset == (pn - 1) * PartSize
        size == Min(PartSize, file_size - offset)
        rest == Max(0, file_size - offset)
    IN  IF size < 0 THEN rest ELSE Min(size, rest)

\* the process is running the upload command
Alive == cmd.pc = "upload"

\* upload_file lines 207-233: parts_to_upload, the locals, the SIGINT handler;
\* and lines 245-260: one future per presigned URL
Install(u, urls) ==
    [u EXCEPT !.pc = "loop", !.urls = urls, !.uploaded_parts = <<>>,
              !.aborted = FALSE, !.first_error = None, !.ctrl_c = 0,
              !.handler = "custom", !.consumed = {}, !.report_futures = <<>>]
Submit(urls) ==
    [p \in Parts |-> IF p \in urls THEN [NoFuture EXCEPT !.st = "pending"] ELSE NoFuture]

\* a with block that waits for the upload pool only
Drained_UploadPool ==
    \A p \in Parts : fut[p].st \notin {"pending", "put", "sleep"}

\* the with block's exit: both pools have shut down (shutdown(wait=True))
Drained ==
    /\ \A p \in Parts : fut[p].st \notin {"pending", "put", "sleep"}
    /\ \A p \in Parts : rep[p].st \notin {"queued", "running"}

\* how upload_file ended: what upload_files and the command do next.
\* outcome: "doc", "aborted" (_UploadAborted), "error" (another Exception),
\* "sysexit" (SystemExit with a code), "kbd" (KeyboardInterrupt)
EndUpload(c, u, outcome, code) ==
    LET rec == [outcome |-> outcome, has_id |-> u.has_id,
                completes |-> u.completes, deletes |-> u.deletes,
                handler |-> u.handler, ctrl_c |-> u.ctrl_c, unwind |-> u.unwind,
                first_error |-> u.first_error,
                missing |-> Cardinality(u.urls) - Len(u.uploaded_parts),
                file_size |-> u.file_size, total_parts |-> u.total_parts,
                resumed |-> u.resumed, partsUploaded |-> srv.partsUploaded,
                urls |-> u.urls, uploaded_parts |-> u.uploaded_parts,
                reported |-> [p \in {q \in Parts : rep[q].acked} |-> rep[p].size]]
        c1 == [c EXCEPT !.ended = Append(@, rec)]
    IN  CASE outcome = "doc" ->
               IF c.idx < c.nfiles
               THEN [c1 EXCEPT !.documents = @ + 1, !.idx = @ + 1]
               ELSE [c1 EXCEPT !.documents = @ + 1, !.pc = "ended", !.exit = EXIT_SUCCESS]
          [] outcome \in {"aborted", "error"} ->
               [c1 EXCEPT !.pc = "ended", !.exit = EXIT_SUCCESS]
          [] outcome = "sysexit" -> [c1 EXCEPT !.pc = "ended", !.exit = code]
          [] OTHER -> [c1 EXCEPT !.pc = "ended", !.exit = EXIT_GENERAL_ERROR]

\* the state after upload_file ended with the given outcome
Ended(u, outcome, code) ==
    /\ cmd' = EndUpload(cmd, u, outcome, code)
    /\ up' = IF outcome = "doc" /\ cmd.idx < cmd.nfiles THEN NewUpload
             ELSE [NoUpload EXCEPT !.pc = "ended"]
    /\ rq' = [rq EXCEPT !["main"] = IdleRequest]
    /\ fut' = [p \in Parts |-> NoFuture]
    /\ rep' = [p \in Parts |-> NoReport]
    /\ srv' = NoServer

\* the main thread's request has ended
MainDone == rq["main"].pc \in {"returned", "raised", "exit"}
Sent(t) == IF rq[t].sends > 0 THEN 1 ELSE 0

\* Step 1: fz.post(".../uploads/init")
UploadInit(size) ==
    /\ Alive /\ up.pc = "start"
    /\ up' = [up EXCEPT !.pc = "init", !.file_size = size]
    /\ rq' = [rq EXCEPT !["main"] = NewRequest("init")]
    /\ UNCHANGED <<cli, ovars, now, tm, eng, file, nreq, faults, fut, rep, srv, cmd>>

\* lines 183-200: the init answer; the status request when resuming
InitDone ==
    /\ Alive /\ up.pc = "init" /\ rq["main"].pc = "returned"
    /\ LET n == TotalParts(up.file_size)
           u == [up EXCEPT !.has_id = TRUE, !.total_parts = n, !.single = (n = 1)]
       IN  IF cmd.resume /\ n # 1
           THEN /\ up' = [u EXCEPT !.pc = "status"]
                /\ rq' = [rq EXCEPT !["main"] = NewRequest("status")]
                /\ fut' = fut
           ELSE /\ up' = Install(u, 1..n)
                /\ rq' = [rq EXCEPT !["main"] = IdleRequest]
                /\ fut' = Submit(1..n)
    /\ UNCHANGED <<cli, ovars, now, tm, eng, file, nreq, faults, rep, srv, cmd>>

\* lines 193-197: partsUploaded from the status answer; the resume request
StatusDone(already) ==
    /\ Alive /\ up.pc = "status" /\ rq["main"].pc = "returned"
    /\ already \in 0..up.total_parts
    /\ srv' = [srv EXCEPT !.partsUploaded = already]
    /\ IF already > 0
       THEN /\ up' = [up EXCEPT !.pc = "resume"]
            /\ rq' = [rq EXCEPT !["main"] = NewRequest("resume")]
            /\ fut' = fut
       ELSE /\ up' = Install(up, 1..up.total_parts)
            /\ rq' = [rq EXCEPT !["main"] = IdleRequest]
            /\ fut' = Submit(1..up.total_parts)
    /\ UNCHANGED <<cli, ovars, now, tm, eng, file, nreq, faults, rep, cmd>>

\* a resume that goes on with the URLs of the init answer
ResumeUrls_Init(init_urls, resume_urls) == init_urls

\* line 199: presigned_urls = resume_data["presignedUrls"]
ResumeUrls(init_urls, resume_urls) == resume_urls

\* lines 198-200: the resume answer's presigned URLs replace the init list
ResumeDone(remaining) ==
    /\ Alive /\ up.pc = "resume" /\ rq["main"].pc = "returned"
    /\ remaining \subseteq 1..up.total_parts
    /\ Cardinality(remaining) = up.total_parts - srv.partsUploaded
    /\ up' = Install([up EXCEPT !.resumed = TRUE],
                     ResumeUrls(1..up.total_parts, remaining))
    /\ rq' = [rq EXCEPT !["main"] = IdleRequest]
    /\ fut' = Submit(ResumeUrls(1..up.total_parts, remaining))
    /\ UNCHANGED <<cli, ovars, now, tm, eng, file, nreq, faults, rep, srv, cmd>>

\* init, status, resume or complete ended in sys.exit or in an exception:
\* nothing in upload_file catches it
RequestFails ==
    /\ Alive /\ up.pc \in {"init", "status", "resume", "complete"}
    /\ rq["main"].pc \in {"raised", "exit"}
    /\ LET u == IF up.pc = "complete" THEN [up EXCEPT !.completes = @ + Sent("main")]
                ELSE up
       IN  IF rq["main"].pc = "exit" THEN Ended(u, "sysexit", rq["main"].exit)
           ELSE Ended(u, "error", NoInt)
    /\ UNCHANGED <<cli, ovars, now, tm, eng, file, nreq, faults>>

\* a worker that looks at the flag on its first attempt only
AttemptBegins_FirstOnly(aborted, attempt) ==
    IF aborted /\ attempt = 0 THEN "aborted" ELSE "put"

\* _upload_part lines 79-81: every turn of the attempt loop starts with
\* aborted.is_set() and raises _UploadAborted when the flag is set
AttemptBegins(aborted, attempt) == IF aborted THEN "aborted" ELSE "put"

\* _upload_part: an attempt begins (a pool worker takes the part, or its
\* sleep ends): the aborted check, then the PUT is sent
PartAttempt(p) ==
    /\ Alive
    /\ \/ /\ fut[p].st = "pending"
          /\ Cardinality({q \in Parts : fut[q].st \in {"put", "sleep"}}) < Concurrency
       \/ fut[p].st = "sleep"
    /\ fut' = [fut EXCEPT ![p].st = AttemptBegins(up.aborted, fut[p].attempt)]
    /\ UNCHANGED <<cli, ovars, evars, up, rep, srv, cmd>>

\* _upload_part: the PUT's outcome; etag "" is an answer without the header
PartPut(p, ok, etag) ==
    /\ Alive /\ fut[p].st = "put"
    /\ faults > 0 \/ ok
    /\ faults' = IF ok THEN faults ELSE faults - 1
    /\ fut' = [fut EXCEPT ![p] =
                 IF ok THEN [@ EXCEPT !.st = "done", !.etag = etag,
                                       !.size = ChunkLen(p, up.file_size)]
                 ELSE IF @.attempt = MaxPartRetries - 1 THEN [@ EXCEPT !.st = "failed"]
                 ELSE [@ EXCEPT !.st = "sleep", !.attempt = @ + 1]]
    /\ UNCHANGED <<cli, ovars, now, tm, eng, file, rq, nreq, up, rep, srv, cmd>>

\* as_completed yields a finished future; lines 265-267: the aborted check
LoopCheck(p) ==
    /\ Alive /\ up.pc = "loop"
    /\ p \in up.urls \ up.consumed
    /\ fut[p].st \in {"done", "aborted", "failed", "cancelled"}
    /\ up' = IF up.aborted /\ up.first_error = None
             THEN [up EXCEPT !.first_error = "aborted", !.pc = "wait",
                             !.consumed = @ \cup {p}]
             ELSE [up EXCEPT !.pc = "result", !.cur = p, !.consumed = @ \cup {p}]
    /\ UNCHANGED <<cli, ovars, evars, fut, rep, srv, cmd>>

\* a for loop that ends before as_completed has yielded every future
LoopEnd_Early ==
    /\ Alive /\ up.pc = "loop"
    /\ up' = [up EXCEPT !.pc = "wait"]
    /\ UNCHANGED <<cli, ovars, evars, fut, rep, srv, cmd>>

\* as_completed is exhausted: the for loop ends
LoopEnd ==
    /\ Alive /\ up.pc = "loop"
    /\ up.urls \ up.consumed = {}
    /\ up' = [up EXCEPT !.pc = "wait"]
    /\ UNCHANGED <<cli, ovars, evars, fut, rep, srv, cmd>>

\* lines 269-289: future.result(), the part is recorded and its report submitted
LoopResult ==
    /\ Alive /\ up.pc = "result"
    /\ LET p == up.cur
       IN  CASE fut[p].st = "done" ->
                  /\ up' = [up EXCEPT !.pc = "loop",
                               !.uploaded_parts =
                                   Append(@, [pn |-> p, etag |-> fut[p].etag,
                                              size |-> fut[p].size]),
                               !.report_futures = Append(@, p)]
                  /\ rep' = [rep EXCEPT ![p].st = "queued", ![p].size = fut[p].size]
                  /\ fut' = fut
             [] fut[p].st = "aborted" ->
                  /\ up' = [up EXCEPT !.pc = "wait", !.first_error = "aborted",
                               !.aborted = TRUE]
                  /\ UNCHANGED <<rep, fut>>
             [] OTHER ->
                  /\ up' = [up EXCEPT !.pc = "wait", !.first_error = "error",
                               !.aborted = TRUE]
                  /\ fut' = [q \in Parts |->
                               IF fut[q].st = "pending"
                               THEN [fut[q] EXCEPT !.st = "cancelled"] ELSE fut[q]]
                  /\ rep' = rep
    /\ UNCHANGED <<cli, ovars, evars, srv, cmd>>

\* _report_part_bg starts on a report pool worker: the aborted check, fz.post
ReportStart(w, p) ==
    /\ Alive /\ rq[w].pc = "idle"
    /\ w = "r2" => rq["r1"].pc # "idle"
    /\ rep[p].st = "queued"
    /\ \A i \in 1..Len(up.report_futures) :
          up.report_futures[i] = p =>
              \A j \in 1..(i - 1) : rep[up.report_futures[j]].st # "queued"
    /\ IF up.aborted
       THEN /\ rep' = [rep EXCEPT ![p].st = "done"]
            /\ rq' = rq
       ELSE /\ rep' = [rep EXCEPT ![p].st = "running", ![p].w = w]
            /\ rq' = [rq EXCEPT ![w] = NewRequest("parts")]
    /\ UNCHANGED <<cli, ovars, now, tm, eng, file, nreq, faults, up, fut, srv, cmd>>

\* _report_part_bg ends: fz.post returned, or raised an Exception (caught,
\* a warning), or raised SystemExit (not an Exception: the future keeps it)
ReportEnd(w, p) ==
    /\ Alive /\ rep[p].st = "running" /\ rep[p].w = w
    /\ rq[w].pc \in {"returned", "raised", "exit"}
    /\ rep' = [rep EXCEPT ![p] = IF rq[w].pc = "exit"
                                 THEN [@ EXCEPT !.st = "exit", !.code = rq[w].exit]
                                 ELSE [@ EXCEPT !.st = "done",
                                                !.acked = (rq[w].pc = "returned")]]
    /\ srv' = [srv EXCEPT !.acks[p] = @ + Sent(w)]
    /\ rq' = [rq EXCEPT ![w] = IdleRequest]
    /\ UNCHANGED <<cli, ovars, now, tm, eng, file, nreq, faults, up, fut, cmd>>

\* lines 295-299: rf.result(timeout=30) for the next report future: it is
\* done, or the wait timed out (both pass), or it re-raises SystemExit
WaitReport ==
    /\ Alive /\ up.pc = "wait"
    /\ IF up.ri > Len(up.report_futures)
       THEN up' = [up EXCEPT !.pc = "drain"]
       ELSE LET r == rep[up.report_futures[up.ri]]
            IN  IF r.st = "exit"
                THEN up' = [up EXCEPT !.pc = "drain", !.unwind = "sysexit",
                                      !.code = r.code]
                ELSE up' = [up EXCEPT !.ri = @ + 1]
    /\ UNCHANGED <<cli, ovars, evars, fut, rep, srv, cmd>>

\* a finally clause that leaves the handler of the upload in force
Finally_Leak(u) == u

\* lines 311-312, finally: signal.signal(signal.SIGINT, original_sigint)
Finally(u) == [u EXCEPT !.handler = "default"]

\* the with block is left once both pools have drained.  Lines 302-315:
\* DELETE when first_error is set, else the handler is restored and
\* POST /complete is sent.  An exception on its way out goes on.
LeavePools ==
    /\ Alive /\ up.pc = "drain" /\ Drained
    /\ IF up.unwind # None
       THEN Ended(Finally(up), up.unwind, up.code)
       ELSE /\ IF up.first_error # None
               THEN /\ up' = [up EXCEPT !.pc = "delete"]
                    /\ rq' = [rq EXCEPT !["main"] = NewRequest("delete")]
               ELSE /\ up' = Finally([up EXCEPT !.pc = "complete"])
                    /\ rq' = [rq EXCEPT !["main"] = NewRequest("complete")]
            /\ UNCHANGED <<fut, rep, srv, cmd>>
    /\ UNCHANGED <<cli, ovars, now, tm, eng, file, nreq, faults>>

\* lines 303-312: the DELETE ended; an Exception is swallowed, first_error raised
DeleteDone ==
    /\ Alive /\ up.pc = "delete" /\ MainDone
    /\ LET u == Finally([up EXCEPT !.deletes = @ + Sent("main")])
       IN  IF rq["main"].pc = "exit" THEN Ended(u, "sysexit", rq["main"].exit)
           ELSE Ended(u, up.first_error, NoInt)
    /\ UNCHANGED <<cli, ovars, now, tm, eng, file, nreq, faults>>

\* lines 315-324: the complete answer; upload_file returns the document
CompleteDone ==
    /\ Alive /\ up.pc = "complete" /\ rq["main"].pc = "returned"
    /\ Ended([up EXCEPT !.completes = @ + Sent("main")], "doc", NoInt)
    /\ UNCHANGED <<cli, ovars, now, tm, eng, file, nreq, faults>>

\* _sigint_handler: the first Ctrl+C sets aborted; the second restores the
\* original handler and re-raises: KeyboardInterrupt in the main thread
Sigint ==
    /\ Alive /\ up.handler = "custom" /\ up.ctrl_c < 2
    /\ IF up.ctrl_c = 0
       THEN /\ up' = [up EXCEPT !.ctrl_c = 1, !.aborted = TRUE]
            /\ rq' = rq
       ELSE /\ up' = [up EXCEPT !.ctrl_c = 2, !.handler = "default", !.pc = "drain",
                                !.unwind = "kbd",
                                !.deletes = IF up.pc = "delete" THEN @ + Sent("main")
                                            ELSE @]
            /\ rq' = [rq EXCEPT !["main"] = IdleRequest]
    /\ UNCHANGED <<cli, ovars, now, tm, eng, file, nreq, faults, fut, rep, srv, cmd>>

(***************************************************************************)
(* auth/credentials.py, statement by statement: fz processes that save and *)
(* load the one credentials file at the same time.                         *)
(***************************************************************************)
\* loads one reading process makes
MaxLoads == 2

Savers == {"A", "B"}
Loaders == {"L"}
NotLoaded == [found |-> FALSE, data |-> {}]
NoProcess == [pc |-> "none", text |-> <<>>, got |-> NotLoaded, loads |-> 0]
NoProcesses ==
    [proc |-> [p \in Savers \cup Loaders |-> NoProcess], last |-> None, prev |-> <<>>]

\* the texts the saving processes write: tokens of a login or of a refresh
SavedTexts ==
    {Dumps(Payload(at, rt, StartTime + 3600, API_URL, cid)) :
        at \in {"at.2", "at.3"}, rt \in {None, "rt.2"}, cid \in {None, "cid"}}

\* line 34: CREDENTIALS_PATH.parent.mkdir
SaveMkdir(p) ==
    /\ cli.proc[p].pc = "mkdir"
    /\ file' = Mkdir(file)
    /\ cli' = [cli EXCEPT !.proc[p].pc = "open"]
    /\ UNCHANGED <<ovars, now, tm, eng, rq, nreq, faults, up, fut, rep, srv, cmd>>

\* line 46, write_text: open(path, "w") truncates the file
SaveOpen(p) ==
    /\ cli.proc[p].pc = "open"
    /\ file' = OpenTrunc(file)
    /\ cli' = [cli EXCEPT !.proc[p].pc = "write"]
    /\ UNCHANGED <<ovars, now, tm, eng, rq, nreq, faults, up, fut, rep, srv, cmd>>

\* line 46, write_text: f.write(data) and the close
SaveWrite(p) ==
    /\ cli.proc[p].pc = "write"
    /\ file' = WriteAt0(file, cli.proc[p].text)
    /\ cli' = [cli EXCEPT !.proc[p].pc = "chmod", !.last = p]
    /\ UNCHANGED <<ovars, now, tm, eng, rq, nreq, faults, up, fut, rep, srv, cmd>>

\* line 47: os.chmod(CREDENTIALS_PATH, 0o600)
SaveChmod(p) ==
    /\ cli.proc[p].pc = "chmod"
    /\ file' = Chmod(file, MODE_0600)
    /\ cli' = [cli EXCEPT !.proc[p].pc = "done"]
    /\ UNCHANGED <<ovars, now, tm, eng, rq, nreq, faults, up, fut, rep, srv, cmd>>

\* load_credentials in another process
Load(p) ==
    /\ cli.proc[p].pc \in {"load", "loaded"}
    /\ cli.proc[p].loads < MaxLoads
    /\ cli' = [cli EXCEPT !.proc[p].pc = "loaded", !.proc[p].loads = @ + 1,
                          !.proc[p].got = load_credentials(file)]
    /\ UNCHANGED <<ovars, now, tm, eng, file, rq, nreq, faults, up, fut, rep, srv, cmd>>

(***************************************************************************)
(* auth/browser.py: browser_login, the device authorization flow           *)
(***************************************************************************)
DEVICE_MAX_RETRIES == 3
\* device_data.get("expires_in", 300) and device_data.get("interval", 5)
DEFAULT_DEVICE_TTL == 300
DEFAULT_POLL_INTERVAL == 5
\* poll_interval += 5
SLOW_DOWN_STEP == 5
\* the lifetime and the interval a device authorization answer states
MaxDeviceTime == 40
MinInterval == 2

NoDevice ==
    [pc |-> "none", attempt |-> 0, interval0 |-> 0, poll_interval |-> 0,
     expires_in |-> 0, clock |-> 0, polls |-> 0, delay |-> 0, last |-> None,
     slow |-> 0, netrun |-> 0, err |-> None,
     \* the last poll's answer and what the loop did with it; bound: the local
     \* err_body has been assigned by an earlier turn of the loop
     status |-> 0, json |-> FALSE, token |-> FALSE, verdict |-> None,
     bound |-> FALSE]

\* the answers to the device authorization request
DeviceAuthAnswers ==
    {[kind |-> "neterr", status |-> 0, interval |-> NoInt, expires_in |-> NoInt]}
    \cup {[kind |-> "resp", status |-> s, interval |-> NoInt, expires_in |-> NoInt] :
            s \in {400, 503}}
    \cup {[kind |-> "resp", status |-> 200, interval |-> i, expires_in |-> e] :
            i \in {NoInt, MinInterval}, e \in {MaxDeviceTime}}

\* the answers to one token poll; json: the body parses as a JSON object;
\* error is err_body's "error" (or "code"), "" when the body has neither
PollAnswers ==
    {[kind |-> "neterr", status |-> 0, json |-> FALSE, error |-> "", token |-> FALSE]}
    \cup {[kind |-> "resp", status |-> 200, json |-> TRUE, error |-> "", token |-> t] :
            t \in BOOLEAN}
    \cup {[kind |-> "resp", status |-> 400, json |-> TRUE, error |-> e, token |-> FALSE] :
            e \in {"authorization_pending", "slow_down", "access_denied",
                   "expired_token", ""}}
    \cup {[kind |-> "resp", status |-> 428, json |-> TRUE, error |-> "", token |-> FALSE]}
    \* a gateway's or a captive portal's answer: an HTML body
    \cup {[kind |-> "resp", status |-> 200, json |-> FALSE, error |-> "", token |-> FALSE]}
    \cup {[kind |-> "resp", status |-> 502, json |-> FALSE, error |-> "", token |-> FALSE]}

\* lines 140-144: the poll interval after an answer with this error code
PollIntervalAfter_Pending(interval, error_code) ==
    IF error_code \in {"slow_down", "authorization_pending"}
    THEN interval + SLOW_DOWN_STEP ELSE interval

PollIntervalAfter(interval, error_code) ==
    IF error_code = "slow_down" THEN interval + SLOW_DOWN_STEP ELSE interval

\* lines 134-138: err_body is assigned only when resp.json() returns
ErrBodyBound(bound, ans) == bound \/ (ans.status # 200 /\ ans.json)

\* lines 121-153: what an answer with a status does to the polling loop;
\* "crash" is an exception that is not a click.ClickException: the
\* ValueError of resp.json() on line 122, the UnboundLocalError of err_body
\* on line 151
PollOutcome(ans, bound) ==
    IF ans.status = 200
    THEN (IF ~ans.json THEN "crash" ELSE IF ans.token THEN "tokens" ELSE "failed")
    ELSE IF ans.error \in {"authorization_pending", "slow_down"} THEN "continue"
    ELSE IF ans.error \in {"access_denied", "expired_token"} THEN "failed"
    ELSE IF ans.status >= 400 /\ ans.status # 428
    THEN (IF ErrBodyBound(bound, ans) THEN "failed" ELSE "crash")
    ELSE "continue"

\* lines 105-106: the monotonic clock when the sleep of a turn has returned
AfterSleep_NoSleep(clock, poll_interval) == clock

AfterSleep(clock, poll_interval) == clock + poll_interval

\* lines 45-52: the client id check
DeviceStart(configured) ==
    /\ dev.pc = "none"
    /\ dev' = IF configured THEN [dev EXCEPT !.pc = "auth"]
              ELSE [dev EXCEPT !.pc = "failed", !.err = "not configured"]
    /\ UNCHANGED <<now, tm, eng, file, rq, nreq, faults, up, fut, rep, srv, cmd, cli, op, xvars>>

\* lines 55-88: one device authorization request and what follows its answer
DeviceAuthorize(ans) ==
    /\ dev.pc = "auth"
    /\ dev' =
         IF ~TokenLoopEnds(ans, dev.attempt, DEVICE_MAX_RETRIES)
         THEN [dev EXCEPT !.attempt = @ + 1]
         ELSE IF ans.kind = "neterr" \/ ans.status # 200
         THEN [dev EXCEPT !.pc = "failed", !.err = "device authorization failed"]
         ELSE LET i == IF ans.interval = NoInt THEN DEFAULT_POLL_INTERVAL
                       ELSE ans.interval
                  e == IF ans.expires_in = NoInt THEN DEFAULT_DEVICE_TTL
                       ELSE ans.expires_in
              IN  [dev EXCEPT !.pc = "poll", !.interval0 = i, !.poll_interval = i,
                              !.expires_in = e, !.clock = 0]
    /\ UNCHANGED <<now, tm, eng, file, rq, nreq, faults, up, fut, rep, srv, cmd, cli, op, xvars>>

\* lines 105-153: one turn of the polling loop: the sleep, the request, the answer
DevicePoll(ans) ==
    /\ dev.pc = "poll" /\ dev.clock < dev.expires_in
    /\ LET d == [dev EXCEPT !.clock = AfterSleep(@, dev.poll_interval),
                            !.polls = @ + 1, !.delay = dev.poll_interval,
                            !.status = ans.status, !.json = ans.json,
                            !.token = ans.token,
                            !.verdict = IF ans.kind = "neterr" THEN "continue"
                                        ELSE PollOutcome(ans, dev.bound),
                            !.bound = IF ans.kind = "neterr" THEN @
                                      ELSE ErrBodyBound(@, ans)]
       IN  dev' =
             IF ans.kind = "neterr"
             THEN [d EXCEPT !.netrun = @ + 1, !.last = "neterr"]
             ELSE CASE PollOutcome(ans, dev.bound) = "tokens" ->
                         [d EXCEPT !.pc = "tokens", !.netrun = 0, !.last = "tokens"]
                    [] PollOutcome(ans, dev.bound) = "failed" ->
                         [d EXCEPT !.pc = "failed", !.netrun = 0, !.last = ans.error,
                                   !.err = "authentication failed"]
                    [] PollOutcome(ans, dev.bound) = "crash" ->
                         [d EXCEPT !.pc = "crashed", !.netrun = 0, !.last = ans.error,
                                   !.err = IF ans.status = 200 THEN "ValueError"
                                           ELSE "UnboundLocalError"]
                    [] OTHER ->
                         [d EXCEPT !.netrun = 0, !.last = ans.error,
                                   !.poll_interval = PollIntervalAfter(@, ans.error),
                                   !.slow = IF ans.error = "slow_down" THEN @ + 1 ELSE @]
    /\ UNCHANGED <<now, tm, eng, file, rq, nreq, faults, up, fut, rep, srv, cmd, cli, op, xvars>>

\* lines 105 and 155-158: the deadline has passed
DeviceTimeout ==
    /\ dev.pc = "poll" /\ dev.clock >= dev.expires_in
    /\ dev' = [dev EXCEPT !.pc = "failed", !.err = "timed out"]
    /\ UNCHANGED <<now, tm, eng, file, rq, nreq, faults, up, fut, rep, srv, cmd, cli, op, xvars>>

(***************************************************************************)
(* auth/token.py and auth/credentials.py, call by call: one TokenManager   *)
(* whose set_tokens, refresh and load_from_credentials run one at a time.  *)
(***************************************************************************)
\* the clock of these calls runs from StartTime to StartTime + StoreHorizon
StoreHorizon == 4
\* set_tokens and refresh calls made on the manager
MaxCalls == 2

\* a credentials file its owner may not write
MODE_0400 == 256
\* the owner-write bit of a mode
OwnerCanWrite(f) == (f.mode \div 128) % 2 = 1
\* write_text: open(path, "w") raises PermissionError, an OSError
SaveRaises(f) == f.exists /\ ~OwnerCanWrite(f)

\* what a call may find on disk: nothing, the directory only, or a record
\* left with mode 0600, 0644 or 0400
PriorFiles ==
    {NoFile, Mkdir(NoFile)}
    \cup {Chmod(save_credentials(NoFile, "at.0", "rt.0", StartTime, API_URL, None), mode) :
            mode \in {MODE_0600, MODE_0644, MODE_0400}}

\* expires_in values given to set_tokens
Lifetimes == {0, 30, 60, 61, 62}

NoCall ==
    [name |-> "none", result |-> "none", T |-> 0, D |-> 0, body |-> NoBody,
     old_refresh |-> None, prior_mode |-> 0, prior_dir |-> FALSE,
     attempt |-> 0, calls |-> 0]

\* the file after the save_credentials call of set_tokens or refresh
SavedOrNot(f, m) == IF SaveRaises(f) THEN Mkdir(f) ELSE Persist(f, m)

\* TokenManager.set_tokens: the fields, then save_credentials
StoreSetTokens(access_token, refresh_token, expires_in, client_id) ==
    /\ op.result # "running" /\ op.calls < MaxCalls
    /\ LET m == set_tokens(tm, access_token, refresh_token, expires_in, client_id, now)
       IN  /\ tm' = m
           /\ file' = SavedOrNot(file, m)
           /\ op' = [NoCall EXCEPT !.name = "set_tokens",
                                   !.result = IF SaveRaises(file) THEN "raise" ELSE "ok",
                                   !.T = now, !.D = expires_in,
                                   !.old_refresh = tm.refresh_token,
                                   !.prior_mode = file.mode, !.prior_dir = file.dir,
                                   !.calls = op.calls + 1]
    /\ UNCHANGED <<now, eng, rq, nreq, faults, up, fut, rep, srv, cmd, cli, dev, xvars>>

\* TokenManager.load_from_credentials
StoreLoad ==
    /\ op.result # "running" /\ op.name # "load"
    /\ LET c == load_credentials(file)
       IN  /\ tm' = IF c.found THEN load_from_credentials(tm, c.data) ELSE tm
           /\ op' = [NoCall EXCEPT !.name = "load",
                                   !.result = IF c.found THEN "true" ELSE "false",
                                   !.calls = op.calls]
    /\ UNCHANGED <<now, file, eng, rq, nreq, faults, up, fut, rep, srv, cmd, cli, dev, xvars>>

\* TokenManager.refresh, lines 106-110: no refresh token, or the loop begins
StoreRefresh ==
    /\ op.result # "running" /\ op.calls < MaxCalls
    /\ op' = [NoCall EXCEPT !.name = "refresh",
                            !.result = IF tm.refresh_token = None THEN "false"
                                       ELSE "running",
                            !.old_refresh = tm.refresh_token,
                            !.prior_mode = file.mode, !.prior_dir = file.dir,
                            !.calls = op.calls + 1]
    /\ UNCHANGED <<now, tm, file, eng, rq, nreq, faults, up, fut, rep, srv, cmd, cli, dev, xvars>>

\* TokenManager.refresh, lines 111-169: one POST /oauth/token and what follows
StoreRefreshAttempt(ans) ==
    /\ op.name = "refresh" /\ op.result = "running"
    /\ IF ~TokenLoopEnds(ans, op.attempt, MAX_REFRESH_RETRIES)
       THEN /\ op' = [op EXCEPT !.attempt = @ + 1]
            /\ UNCHANGED <<tm, file>>
       ELSE IF RefreshSucceeds(ans)
       THEN LET m == AfterRefreshAnswer(tm, ans, now)
            IN  /\ tm' = m
                /\ file' = SavedOrNot(file, m)
                /\ op' = [op EXCEPT !.result = IF SaveRaises(file) THEN "raise"
                                               ELSE "true",
                                    !.T = now, !.body = ans.body]
       ELSE /\ op' = [op EXCEPT !.result = "false"]
            /\ tm' = AfterRefreshAnswer(tm, ans, now)
            /\ file' = file
    /\ UNCHANGED <<now, eng, rq, nreq, faults, up, fut, rep, srv, cmd, cli, dev, xvars>>

\* a second passes
StoreElapse ==
    /\ now < StartTime + StoreHorizon
    /\ now' = now + 1
    /\ UNCHANGED <<tm, file, op, eng, rq, nreq, faults, up, fut, rep, srv, cmd, cli, dev, xvars>>

(***************************************************************************)
(* commands/runs.py and commands/batch.py: the loops that wait for a run   *)
(***************************************************************************)
EXIT_RUN_FAILED == 6
EXIT_TIMEOUT == 7
\* config.run_timeout and config.run_poll_interval, in seconds
RunTimeout == 4
RunPollInterval == 2
\* the polls a runs watch makes before the model stops following it
MaxWatchPolls == 3

\* fz runs create --wait, fz runs watch, fz run --wait, fz batch
WaitCommands == {"runs create", "runs watch", "run", "batch"}
TERMINAL_STATUSES == {"completed", "failed", "cancelled"}
RunStatuses == {"pending", "running", "completed", "failed", "cancelled"}

NoWait ==
    [pc |-> "none", command |-> None, timeout_secs |-> 0, elapsed |-> 0,
     polls |-> 0, status |-> None, exit |-> NoInt, msg |-> None,
     interrupted |-> FALSE]

\* timeout_secs = timeout or ctx.obj["config"].run_timeout
TimeoutSecs(timeout) ==
    IF timeout = NoInt \/ timeout = 0 THEN RunTimeout ELSE timeout

\* status in ("completed", "failed", "cancelled")
IsTerminal_Any(status) == TRUE

IsTerminal(status) == status \in TERMINAL_STATUSES

\* runs_create and runs_watch wrap their loop in try/except KeyboardInterrupt;
\* run_cmd and batch_cmd call _wait_for_run bare
CatchesInterrupt(command) == command \in {"runs create", "runs watch"}

\* how a GET of the loop ends: fz.get returns a response below 400 whose
\* body is the run, or the engine exits the process with the failure's code
RunAnswers ==
    {[kind |-> "run", status |-> st, code |-> NoInt] : st \in RunStatuses \cup {None}}
    \cup {[kind |-> "exit", status |-> None,
           code |-> handle_api_error([NoResp EXCEPT !.kind = "resp", !.status = st]).code] :
            st \in {404, 503}}
    \cup {[kind |-> "exit", status |-> None, code |-> handle_network_error.code]}

\* the command reaches its loop
WaitStart(command, timeout) ==
    /\ wt.pc = "none"
    /\ wt' = [wt EXCEPT !.pc = "loop", !.command = command,
                        !.timeout_secs = TimeoutSecs(timeout)]
    /\ UNCHANGED <<evars, up, fut, rep, srv, cmd, cli, op, dev, pg, pl, mf, bk, dl, cr, dr>>

\* _wait_for_run: one turn of the loop; the GET takes d seconds
WaitPoll(ans, d) ==
    /\ wt.pc = "loop" /\ wt.command # "runs watch"
    /\ LET e == wt.elapsed + d
           w == [wt EXCEPT !.polls = @ + 1, !.elapsed = e]
       IN  wt' =
             IF ans.kind = "exit"
             THEN [w EXCEPT !.pc = "exit", !.exit = ans.code, !.msg = "request failed"]
             ELSE IF IsTerminal(ans.status)
             THEN IF ans.status = "failed"
                  THEN [w EXCEPT !.pc = "exit", !.status = ans.status,
                                 !.exit = EXIT_RUN_FAILED, !.msg = "Run failed"]
                  ELSE [w EXCEPT !.pc = "returned", !.status = ans.status]
             ELSE IF e > wt.timeout_secs
             THEN [w EXCEPT !.pc = "exit", !.status = ans.status,
                            !.exit = EXIT_TIMEOUT, !.msg = "Timeout waiting for run."]
             ELSE [w EXCEPT !.status = ans.status, !.elapsed = e + RunPollInterval]
    /\ UNCHANGED <<evars, up, fut, rep, srv, cmd, cli, op, dev, pg, pl, mf, bk, dl, cr, dr>>

\* runs_watch: one turn of the loop: the run, its status events, the table
WatchPoll(ans, events) ==
    /\ wt.pc = "loop" /\ wt.command = "runs watch" /\ wt.polls < MaxWatchPolls
    /\ LET w == [wt EXCEPT !.polls = @ + 1]
       IN  wt' =
             IF ans.kind = "exit"
             THEN [w EXCEPT !.pc = "exit", !.exit = ans.code, !.msg = "request failed"]
             ELSE IF events.kind = "exit"
             THEN [w EXCEPT !.pc = "exit", !.status = ans.status, !.exit = events.code,
                            !.msg = "request failed"]
             ELSE IF ans.status \in TERMINAL_STATUSES
             THEN [w EXCEPT !.pc = "returned", !.status = ans.status]
             ELSE [w EXCEPT !.status = ans.status]
    /\ UNCHANGED <<evars, up, fut, rep, srv, cmd, cli, op, dev, pg, pl, mf, bk, dl, cr, dr>>

\* Ctrl-C while the loop runs: KeyboardInterrupt is raised in the main thread.
\* Uncaught, it reaches click's main, which prints Aborted! and exits 1.
WaitInterrupt ==
    /\ wt.pc = "loop"
    /\ wt' = IF CatchesInterrupt(wt.command)
             THEN [wt EXCEPT !.pc = "interrupted", !.interrupted = TRUE,
                             !.msg = "continues on server"]
             ELSE [wt EXCEPT !.pc = "aborted", !.interrupted = TRUE,
                             !.exit = 1, !.msg = "Aborted!"]
    /\ UNCHANGED <<evars, up, fut, rep, srv, cmd, cli, op, dev, pg, pl, mf, bk, dl, cr, dr>>

(***************************************************************************)
(* commands/batch.py: _fetch_all_results                                   *)
(***************************************************************************)
\* limit = 100
PAGE_LIMIT == 100
\* the most results a run holds
MaxTotal == 250

NoFetch ==
    [pc |-> "none", body |-> None, total |-> 0, offset |-> 0, requests |-> 0,
     offsets |-> <<>>, results |-> <<>>]

\* the page a server that holds the results 1..total answers with
PageOf(total, offset, limit) ==
    [i \in 1..Min(limit, Max(0, total - offset)) |-> offset + i]

\* total = data.get("total", 0) if isinstance(data, dict) else len(items)
TotalOf(body, total, items) == IF body = "dict" THEN total ELSE Len(items)

\* if offset + limit >= total or not items: break
LastPage_Beyond(offset, limit, total, items) ==
    offset + limit > total \/ items = <<>>

LastPage(offset, limit, total, items) ==
    offset + limit >= total \/ items = <<>>

\* lines 85-87: the run holds total results; the body of an answer is an
\* object with items and total, or the bare list of items
FetchStart(total, body) ==
    /\ pg.pc = "none"
    /\ pg' = [pg EXCEPT !.pc = "loop", !.total = total, !.body = body]
    /\ UNCHANGED <<evars, up, fut, rep, srv, cmd, cli, op, dev, wt, pl, mf, bk, dl, cr, dr>>

\* lines 89-98: one turn of the loop
FetchPage ==
    /\ pg.pc = "loop"
    /\ LET items == PageOf(pg.total, pg.offset, PAGE_LIMIT)
           f == [pg EXCEPT !.requests = @ + 1,
                           !.offsets = Append(@, pg.offset),
                           !.results = @ \o items]
       IN  pg' = IF LastPage(pg.offset, PAGE_LIMIT,
                             TotalOf(pg.body, pg.total, items), items)
                 THEN [f EXCEPT !.pc = "returned"]
                 ELSE [f EXCEPT !.offset = @ + PAGE_LIMIT]
    /\ UNCHANGED <<evars, up, fut, rep, srv, cmd, cli, op, dev, wt, pl, mf, bk, dl, cr, dr>>

(***************************************************************************)
(* upload.py lines 240-299: the upload pool and the report pool, on a file *)
(* of more parts than the pools have workers                               *)
(***************************************************************************)
\* parts of the file, and the largest upload.concurrency
PoolParts == 5
MaxPoolConcurrency == 2
\* ThreadPoolExecutor(max_workers=2) as report_pool
REPORT_WORKERS == 2

NoPools ==
    [pc |-> "none", n |-> 0, concurrency |-> 0,
     put |-> [p \in 1..PoolParts |-> "none"],
     ack |-> [p \in 1..PoolParts |-> "none"]]

\* the work items a pool's threads are running
Busy(items) == Cardinality({p \in DOMAIN items : items[p] \in {"put", "sleep", "post"}})

\* ThreadPoolExecutor: a queued work item starts when one of the pool's
\* max_workers threads is idle
WorkerFree_Always(busy, max_workers) == TRUE

WorkerFree(busy, max_workers) == busy < max_workers

\* lines 242-260: the pools are created and every part is submitted
PoolsStart(n, concurrency) ==
    /\ pl.pc = "none"
    /\ pl' = [pl EXCEPT !.pc = "loop", !.n = n, !.concurrency = concurrency,
                        !.put = [p \in 1..PoolParts |->
                                    IF p <= n THEN "pending" ELSE "none"]]
    /\ UNCHANGED <<evars, up, fut, rep, srv, cmd, cli, op, dev, wt, pg, mf, bk, dl, cr, dr>>

\* an upload pool thread takes a part and sends its PUT
PoolTake(p) ==
    /\ pl.pc = "loop" /\ pl.put[p] = "pending"
    /\ WorkerFree(Busy(pl.put), pl.concurrency)
    /\ pl' = [pl EXCEPT !.put[p] = "put"]
    /\ UNCHANGED <<evars, up, fut, rep, srv, cmd, cli, op, dev, wt, pg, mf, bk, dl, cr, dr>>

\* _upload_part: the PUT ends; it failed and the thread sleeps before the
\* next attempt, or it succeeded: lines 283-289, the part is recorded and
\* its acknowledgement submitted to the report pool
PoolPut(p, ok) ==
    /\ pl.pc = "loop" /\ pl.put[p] = "put"
    /\ pl' = IF ok THEN [pl EXCEPT !.put[p] = "done", !.ack[p] = "queued"]
             ELSE [pl EXCEPT !.put[p] = "sleep"]
    /\ UNCHANGED <<evars, up, fut, rep, srv, cmd, cli, op, dev, wt, pg, mf, bk, dl, cr, dr>>

\* time.sleep(_retry_delay(attempt)) returns: the next PUT of the part
PoolRetry(p) ==
    /\ pl.pc = "loop" /\ pl.put[p] = "sleep"
    /\ pl' = [pl EXCEPT !.put[p] = "put"]
    /\ UNCHANGED <<evars, up, fut, rep, srv, cmd, cli, op, dev, wt, pg, mf, bk, dl, cr, dr>>

\* a report pool thread takes an acknowledgement and posts it
AckTake(p) ==
    /\ pl.pc = "loop" /\ pl.ack[p] = "queued"
    /\ WorkerFree(Busy(pl.ack), REPORT_WORKERS)
    /\ pl' = [pl EXCEPT !.ack[p] = "post"]
    /\ UNCHANGED <<evars, up, fut, rep, srv, cmd, cli, op, dev, wt, pg, mf, bk, dl, cr, dr>>

\* _report_part_bg returns
AckEnd(p) ==
    /\ pl.pc = "loop" /\ pl.ack[p] = "post"
    /\ pl' = [pl EXCEPT !.ack[p] = "done"]
    /\ UNCHANGED <<evars, up, fut, rep, srv, cmd, cli, op, dev, wt, pg, mf, bk, dl, cr, dr>>

\* the with block is left: both pools have shut down
PoolsEnd ==
    /\ pl.pc = "loop"
    /\ \A p \in 1..pl.n : pl.put[p] = "done" /\ pl.ack[p] = "done"
    /\ pl' = [pl EXCEPT !.pc = "left"]
    /\ UNCHANGED <<evars, up, fut, rep, srv, cmd, cli, op, dev, wt, pg, mf, bk, dl, cr, dr>>

(***************************************************************************)
(* upload.py: upload_files over several files, each upload_file call taken *)
(* by the way it ends                                                      *)
(***************************************************************************)
\* files given to one call of upload_files
MaxDriverFiles == 3

\* the ways upload_file ends: it returns the document; it raises
\* _UploadAborted; it raises RuntimeError (a part failed); a request of it
\* exits the process (handle_api_error, handle_network_error: SystemExit);
\* a second Ctrl-C raises KeyboardInterrupt
UploadOutcomes ==
    {[outcome |-> o, code |-> NoInt] : o \in {"doc", "aborted", "error", "kbd"}}
    \cup {[outcome |-> "sysexit", code |-> c] :
            c \in {EXIT_GENERAL_ERROR, EXIT_AUTH_FAILURE, EXIT_PERMISSION_DENIED,
                   EXIT_NOT_FOUND, EXIT_CONFLICT, EXIT_NETWORK_ERROR}}

\* lines 382-401: the upload_file call for the next file ends
FileEnds(o) ==
    /\ mf.pc = "upload"
    /\ mf' = EndUpload(mf, NoUpload, o.outcome, o.code)
    /\ UNCHANGED <<evars, up, fut, rep, srv, cmd, cli, op, dev, wt, pg, pl, bk, dl, cr, dr>>

(***************************************************************************)
(* client.py lines 24-28 and 151-166: the wait after a transient answer.   *)
(* Times are in tenths of a second.                                        *)
(***************************************************************************)
\* base_delays = [1, 2, 4]
BASE_DELAYS == <<10, 20, 40>>
\* min(..., 30.0)
MAX_TRANSIENT_DELAY == 300
\* random.random() is in [0, 1)
Jitters == {0, 5, 9}

\* a backoff that is not clipped
TransientDelay_Unclipped(attempt, jitter) ==
    IF attempt < Len(BASE_DELAYS) THEN BASE_DELAYS[attempt + 1] + jitter
    ELSE BASE_DELAYS[Len(BASE_DELAYS)] * 2 ^ (attempt - Len(BASE_DELAYS) + 1) + jitter

\* _transient_delay(attempt), attempt counted from 0
TransientDelay(attempt, jitter) ==
    LET base == IF attempt < Len(BASE_DELAYS) THEN BASE_DELAYS[attempt + 1]
                ELSE BASE_DELAYS[Len(BASE_DELAYS)]
                         * 2 ^ (attempt - Len(BASE_DELAYS) + 1)
    IN  Min(base + jitter, MAX_TRANSIENT_DELAY)

\* resp.headers.get("retry-after"): no header, an empty one, a decimal
\* number of seconds, an HTTP-date, and what float() also accepts: nan, inf
RetryAfterHeaders ==
    {[kind |-> k, value |-> 0] : k \in {"absent", "empty", "date", "nan", "inf"}}
    \cup {[kind |-> "seconds", value |-> v] : v \in {-50, 0, 15, 50, 400}}

\* a wait that takes the header's number whenever it has one
RetryDelay_Header(delay, h) ==
    IF h.kind = "seconds" THEN [raised |-> None, delay |-> h.value]
    ELSE [raised |-> None, delay |-> delay]

\* lines 154-159 and 165: delay = max(delay, float(retry_after)) unless
\* float() raises ValueError; max(delay, nan) is delay; time.sleep(inf)
\* raises OverflowError
RetryDelay(delay, h) ==
    CASE h.kind = "seconds" -> [raised |-> None, delay |-> Max(delay, h.value)]
      [] h.kind = "inf" -> [raised |-> "OverflowError", delay |-> delay]
      [] OTHER -> [raised |-> None, delay |-> delay]

NoBackoff ==
    [pc |-> "none", attempt |-> 0, status |-> 0,
     header |-> [kind |-> "absent", value |-> 0], jitter |-> 0, wait |-> 0]

\* line 152: the answer of attempt number attempt has arrived
BackoffAnswer(attempt, status, header) ==
    /\ bk.pc = "none"
    /\ bk' = [bk EXCEPT !.pc = "answered", !.attempt = attempt, !.status = status,
                        !.header = header]
    /\ UNCHANGED <<evars, up, fut, rep, srv, cmd, cli, op, dev, wt, pg, pl, mf, dl, cr, dr>>

\* lines 152-168: a transient answer that is not the last attempt's is
\* followed by the sleep and the next attempt; any other answer leaves the
\* loop
BackoffWait(jitter) ==
    /\ bk.pc = "answered"
    /\ bk' =
         IF bk.status \in TRANSIENT_STATUSES /\ bk.attempt < MAX_TRANSIENT_RETRIES - 1
         THEN LET r == RetryDelay(TransientDelay(bk.attempt, jitter), bk.header)
              IN  IF r.raised # None
                  THEN [bk EXCEPT !.pc = "raised", !.jitter = jitter]
                  ELSE [bk EXCEPT !.pc = "slept", !.jitter = jitter, !.wait = r.delay]
         ELSE [bk EXCEPT !.pc = "left"]
    /\ UNCHANGED <<evars, up, fut, rep, srv, cmd, cli, op, dev, wt, pg, pl, mf, dl, cr, dr>>

(***************************************************************************)
(* The backoff functions: client.py _transient_delay (24-28), upload.py    *)
(* _retry_delay (48-52, the same text), and the _retry_delay of            *)
(* auth/token.py (19-23), auth/browser.py (28-32) and auth/m2m.py (16-20), *)
(* which keeps the last base for later attempts. Tenths of a second.       *)
(***************************************************************************)
Layers == {"client", "upload", "token", "browser", "m2m"}
\* the largest upload_retry_attempts a configuration file gives
MaxUploadRetries == 7

\* auth/token.py _retry_delay(attempt)
retry_delay(attempt, jitter) ==
    LET base == IF attempt < Len(BASE_DELAYS) THEN BASE_DELAYS[attempt + 1]
                ELSE BASE_DELAYS[Len(BASE_DELAYS)]
    IN  Min(base + jitter, MAX_TRANSIENT_DELAY)

\* the function each layer calls before time.sleep
LayerDelay(layer, attempt, jitter) ==
    IF layer \in {"client", "upload"} THEN TransientDelay(attempt, jitter)
    ELSE retry_delay(attempt, jitter)

\* attempts per layer: _MAX_TRANSIENT_RETRIES, _MAX_REFRESH_RETRIES and
\* _MAX_RETRIES are 3, the upload's max_retries is config.upload_retry_attempts
LayerRetries(layer) ==
    IF layer = "upload" THEN 1..MaxUploadRetries ELSE {MAX_TRANSIENT_RETRIES}

NoDelay ==
    [pc |-> "none", layer |-> None, attempt |-> 0, jitter |-> 0,
     header |-> [kind |-> "absent", value |-> 0], computed |-> 0, wait |-> 0]

\* an attempt that is not the last one has failed in a way the layer retries;
\* only FZClient.request reads a retry-after header (client.py:154)
DelayAttempt(layer, max_retries, attempt, h) ==
    /\ dl.pc = "none"
    /\ attempt < max_retries - 1
    /\ layer # "client" => h.kind = "absent"
    /\ dl' = [dl EXCEPT !.pc = "failed", !.layer = layer, !.attempt = attempt,
                        !.header = h]
    /\ UNCHANGED <<evars, up, fut, rep, srv, cmd, cli, op, dev, wt, pg, pl, mf, bk, cr, dr>>

\* the layer computes its delay and sleeps: client.py:148 and 153-165,
\* upload.py:125, token.py:125 and 130, browser.py:67 and 72, m2m.py:50 and 55
DelaySleep(jitter) ==
    /\ dl.pc = "failed"
    /\ LET d == LayerDelay(dl.layer, dl.attempt, jitter)
           r == IF dl.layer = "client" THEN RetryDelay(d, dl.header)
                ELSE [raised |-> None, delay |-> d]
       IN  dl' = [dl EXCEPT !.pc = IF r.raised # None THEN "raised" ELSE "slept",
                            !.jitter = jitter, !.computed = d, !.wait = r.delay]
    /\ UNCHANGED <<evars, up, fut, rep, srv, cmd, cli, op, dev, wt, pg, pl, mf, bk, cr, dr>>

(***************************************************************************)
(* auth/credentials.py: a record saved and loaded back.                    *)
(***************************************************************************)
\* records with the required fields: refresh_token may be None, client_id
\* may be missing (None) or any string, the empty one included
Records ==
    [access_token : {"at.1", "at.2"}, refresh_token : {None, "rt.1"},
     expires_at : {0, StartTime, StartTime + 3600}, api_url : {API_URL},
     client_id : {None, "", "cid"}]

\* the record as the dict a caller compares with: client_id is a key unless
\* the record has none
AsDict(x) ==
    {StrField("access_token", x.access_token),
     StrField("refresh_token", x.refresh_token),
     IntField("expires_at", x.expires_at),
     StrField("api_url", x.api_url)}
    \cup (IF x.client_id # None THEN {StrField("client_id", x.client_id)} ELSE {})

NoRound ==
    [pc |-> "none", found |-> FALSE, data |-> {},
     x |-> [access_token |-> "at.1", refresh_token |-> None, expires_at |-> 0,
            api_url |-> API_URL, client_id |-> None]]

\* save_credentials(**x), lines 25-47; write_text raises over a file the
\* owner cannot write
RoundSave(x) ==
    /\ cr.pc = "none"
    /\ file' = IF SaveRaises(file) THEN Mkdir(file)
               ELSE save_credentials(file, x.access_token, x.refresh_token,
                                     x.expires_at, x.api_url, x.client_id)
    /\ cr' = [cr EXCEPT !.pc = IF SaveRaises(file) THEN "raised" ELSE "saved",
                        !.x = x]
    /\ UNCHANGED <<now, tm, eng, rq, nreq, faults, up, fut, rep, srv, cmd, cli, op,
                   dev, wt, pg, pl, mf, bk, dl, dr>>

\* load_credentials(), lines 12-22
RoundLoad ==
    /\ cr.pc = "saved"
    /\ LET c == load_credentials(file)
       IN  cr' = [cr EXCEPT !.pc = "loaded", !.found = c.found, !.data = c.data]
    /\ UNCHANGED <<evars, up, fut, rep, srv, cmd, cli, op, dev, wt, pg, pl, mf, bk, dl, dr>>

(***************************************************************************)
(* commands/batch.py: run_cmd (lines 155-190) and batch_cmd (292-322):     *)
(* upload_files on a set of files, then the run for that set.              *)
(***************************************************************************)
\* batches of one batch command
MaxBatches == 2

NoDriver ==
    [pc |-> "none", command |-> None, batches |-> 0, batch_idx |-> 0, runs |-> <<>>]

\* upload_files is called on n files (run: lines 159-167, batch: 302-308)
StartFiles(n) == [NoCommand EXCEPT !.pc = "upload", !.nfiles = n, !.idx = 1]

\* upload_files returned its list: its loop ended or was left by break;
\* SystemExit and KeyboardInterrupt leave it without a return
Returned(c) ==
    /\ c.pc = "ended"
    /\ c.ended[Len(c.ended)].outcome \in {"doc", "aborted", "error"}

\* run_cmd lines 162-188 and batch_cmd lines 302-313: the result of
\* upload_files is not assigned; the run is created whenever it returned
RunAfterUpload(c) == Returned(c)

\* the command starts on its first set of files
DriverStart(command, n, batches) ==
    /\ dr.pc = "none"
    /\ command = "run" => batches = 1
    /\ dr' = [dr EXCEPT !.pc = "upload", !.command = command, !.batches = batches,
                        !.batch_idx = 1]
    /\ mf' = StartFiles(n)
    /\ UNCHANGED <<evars, up, fut, rep, srv, cmd, cli, op, dev, wt, pg, pl, bk, dl, cr>>

\* upload_files has ended: the run is created (_create_run), and then the
\* next batch begins or the command ends; res = "create" is a create
\* request that exits the process, "later" a wait or fetch request that does
DriverCreateRun(res) ==
    /\ dr.pc = "upload" /\ mf.pc = "ended"
    /\ IF ~RunAfterUpload(mf) \/ res = "create"
       THEN /\ dr' = [dr EXCEPT !.pc = "exited"]
            /\ mf' = mf
       ELSE LET d == [dr EXCEPT !.runs = Append(@, [batch |-> dr.batch_idx,
                                                    files |-> mf.nfiles,
                                                    documents |-> mf.documents,
                                                    outcome |-> mf.ended[Len(mf.ended)].outcome])]
            IN  IF res = "later" THEN dr' = [d EXCEPT !.pc = "exited"] /\ mf' = mf
                ELSE IF dr.batch_idx < dr.batches
                THEN /\ dr' = [d EXCEPT !.batch_idx = @ + 1]
                     /\ mf' = StartFiles(mf.nfiles)
                ELSE dr' = [d EXCEPT !.pc = "done"] /\ mf' = mf
    /\ UNCHANGED <<evars, up, fut, rep, srv, cmd, cli, op, dev, wt, pg, pl, bk, dl, cr>>

\* the credentials file a command may find: none, or one a login wrote
InitialFiles ==
    {NoFile}
    \cup {save_credentials(NoFile, "at.1", rt, e, API_URL, "cid") :
            rt \in {None, "rt.1"}, e \in {StartTime - 10, StartTime + 3600}}

InitEngine ==
    /\ now = StartTime
    /\ tm = NewTokenManager
    /\ eng \in [resolved : {FALSE}, env_m2m : BOOLEAN]
    /\ file \in InitialFiles
    /\ rq = [t \in Threads |-> IdleRequest]
    /\ nreq = 0
    /\ faults = EngineFaults
    /\ up = NoUpload
    /\ fut = [p \in Parts |-> NoFuture]
    /\ rep = [p \in Parts |-> NoReport]
    /\ srv = NoServer
    /\ cmd = NoCommand
    /\ cli = NoProcesses
    /\ op = NoCall
    /\ dev = NoDevice
    /\ wt = NoWait
    /\ pg = NoFetch
    /\ pl = NoPools
    /\ mf = NoCommand
    /\ bk = NoBackoff
    /\ dl = NoDelay
    /\ cr = NoRound
    /\ dr = NoDriver

NextEngine ==
    \/ Tick
    \/ StartRequest
    \/ Headers("main")
    \/ \E ans \in TokenAnswers : RefreshAttempt("main", ans)
    \/ \E ans \in ExchangeAnswers : ExchangeAttempt("main", ans)
    \/ \E ans \in ApiAnswers : Respond("main", ans)

\* the HTTP engine and its token manager, one thread
SpecEngine == InitEngine /\ [][NextEngine]_vars

\* The answers of the API and of the token endpoint during an upload.
UploadApiAnswers ==
    {a \in ApiAnswers : a.detail = None /\ a.www = NoWww /\ a.status \in {0, 200, 401, 500}}
UploadTokenAnswers ==
    {a \in TokenAnswers : a.kind = "resp" /\ a.status \in {200, 400}
                           /\ a.body.expires_in = 1800}

InitUpload ==
    /\ now = StartTime
    /\ tm = NewTokenManager
    /\ eng = [resolved |-> FALSE, env_m2m |-> FALSE]
    /\ file \in {save_credentials(NoFile, "at.1", "rt.1", e, API_URL, "cid") :
                    e \in {StartTime - 10, StartTime + 3600}}
    /\ rq = [t \in Threads |-> IdleRequest]
    /\ nreq = 0
    /\ faults = UploadFaults
    /\ up = NewUpload
    /\ fut = [p \in Parts |-> NoFuture]
    /\ rep = [p \in Parts |-> NoReport]
    /\ srv = NoServer
    /\ cmd \in {[NoCommand EXCEPT !.pc = "upload", !.nfiles = n, !.resume = r, !.idx = 1] :
                   n \in 1..MaxFiles, r \in BOOLEAN}
    /\ cli = NoProcesses
    /\ op = NoCall
    /\ dev = NoDevice
    /\ wt = NoWait
    /\ pg = NoFetch
    /\ pl = NoPools
    /\ mf = NoCommand
    /\ bk = NoBackoff
    /\ dl = NoDelay
    /\ cr = NoRound
    /\ dr = NoDriver

NextUpload ==
    \/ \E size \in FileSizes : UploadInit(size)
    \/ InitDone
    \/ \E already \in 0..MaxParts : StatusDone(already)
    \/ \E remaining \in SUBSET Parts : ResumeDone(remaining)
    \/ RequestFails
    \/ \E p \in Parts : PartAttempt(p)
    \/ \E p \in Parts, ok \in BOOLEAN, etag \in {"etag", ""} : PartPut(p, ok, etag)
    \/ \E p \in Parts : LoopCheck(p)
    \/ LoopEnd
    \/ LoopResult
    \/ \E w \in ReportWorkers, p \in Parts : ReportStart(w, p)
    \/ \E w \in ReportWorkers, p \in Parts : ReportEnd(w, p)
    \/ WaitReport
    \/ LeavePools
    \/ DeleteDone
    \/ CompleteDone
    \/ Sigint
    \/ \E t \in Threads : Alive /\ Headers(t)
    \/ \E t \in Threads, ans \in UploadTokenAnswers : Alive /\ RefreshAttempt(t, ans)
    \/ \E t \in Threads, ans \in UploadApiAnswers : Alive /\ Respond(t, ans)

\* the documents upload command: upload_files, upload_file and its pools
SpecUpload == InitUpload /\ [][NextUpload]_vars

InitCreds ==
    /\ now = StartTime
    /\ tm = NewTokenManager
    /\ eng = [resolved |-> FALSE, env_m2m |-> FALSE]
    /\ file \in {save_credentials(NoFile, "at.1", "rt.1", StartTime + 3600, API_URL, cid) :
                    cid \in {None, "cid"}}
    /\ rq = [t \in Threads |-> IdleRequest]
    /\ nreq = 0
    /\ faults = 0
    /\ up = NoUpload
    /\ fut = [p \in Parts |-> NoFuture]
    /\ rep = [p \in Parts |-> NoReport]
    /\ srv = NoServer
    /\ cmd = NoCommand
    /\ \E texts \in [Savers -> SavedTexts] :
          cli = [proc |-> [p \in Savers \cup Loaders |->
                            IF p \in Savers
                            THEN [NoProcess EXCEPT !.pc = "mkdir", !.text = texts[p]]
                            ELSE [NoProcess EXCEPT !.pc = "load"]],
                 last |-> None, prev |-> file.text]
    /\ op = NoCall
    /\ dev = NoDevice
    /\ wt = NoWait
    /\ pg = NoFetch
    /\ pl = NoPools
    /\ mf = NoCommand
    /\ bk = NoBackoff
    /\ dl = NoDelay
    /\ cr = NoRound
    /\ dr = NoDriver

NextCreds ==
    \/ \E p \in Savers : SaveMkdir(p)
    \/ \E p \in Savers : SaveOpen(p)
    \/ \E p \in Savers : SaveWrite(p)
    \/ \E p \in Savers : SaveChmod(p)
    \/ \E p \in Loaders : Load(p)

\* fz processes saving and loading the credentials file concurrently
SpecCreds == InitCreds /\ [][NextCreds]_vars

InitStore ==
    /\ now = StartTime
    /\ tm = NewTokenManager
    /\ eng = [resolved |-> FALSE, env_m2m |-> FALSE]
    /\ file \in PriorFiles
    /\ rq = [t \in Threads |-> IdleRequest]
    /\ nreq = 0
    /\ faults = 0
    /\ up = NoUpload
    /\ fut = [p \in Parts |-> NoFuture]
    /\ rep = [p \in Parts |-> NoReport]
    /\ srv = NoServer
    /\ cmd = NoCommand
    /\ cli = NoProcesses
    /\ op = NoCall
    /\ dev = NoDevice
    /\ wt = NoWait
    /\ pg = NoFetch
    /\ pl = NoPools
    /\ mf = NoCommand
    /\ bk = NoBackoff
    /\ dl = NoDelay
    /\ cr = NoRound
    /\ dr = NoDriver

NextStore ==
    \/ \E rt \in {None, "rt.1"}, d \in Lifetimes, cid \in {None, "cid"} :
          StoreSetTokens("at.1", rt, d, cid)
    \/ StoreLoad
    \/ StoreRefresh
    \/ \E ans \in TokenAnswers : StoreRefreshAttempt(ans)
    \/ StoreElapse

\* one token manager and its credentials file, call by call
SpecStore == InitStore /\ [][NextStore]_vars

InitDevice ==
    /\ now = StartTime
    /\ tm = NewTokenManager
    /\ eng = [resolved |-> FALSE, env_m2m |-> FALSE]
    /\ file = NoFile
    /\ rq = [t \in Threads |-> IdleRequest]
    /\ nreq = 0
    /\ faults = 0
    /\ up = NoUpload
    /\ fut = [p \in Parts |-> NoFuture]
    /\ rep = [p \in Parts |-> NoReport]
    /\ srv = NoServer
    /\ cmd = NoCommand
    /\ cli = NoProcesses
    /\ op = NoCall
    /\ dev = NoDevice
    /\ wt = NoWait
    /\ pg = NoFetch
    /\ pl = NoPools
    /\ mf = NoCommand
    /\ bk = NoBackoff
    /\ dl = NoDelay
    /\ cr = NoRound
    /\ dr = NoDriver

NextDevice ==
    \/ \E configured \in BOOLEAN : DeviceStart(configured)
    \/ \E ans \in DeviceAuthAnswers : DeviceAuthorize(ans)
    \/ \E ans \in PollAnswers : DevicePoll(ans)
    \/ DeviceTimeout

\* fz auth login: the device authorization flow
SpecDevice == InitDevice /\ [][NextDevice]_vars

\* the same flow as a running process: a sleep returns and a request ends
\* (httpx.Client(timeout=30.0)), so a step that can be taken is taken
SpecDeviceLive == InitDevice /\ [][NextDevice]_vars /\ WF_vars(NextDevice)

InitWait ==
    /\ now = StartTime
    /\ tm = NewTokenManager
    /\ eng = [resolved |-> FALSE, env_m2m |-> FALSE]
    /\ file = NoFile
    /\ rq = [t \in Threads |-> IdleRequest]
    /\ nreq = 0
    /\ faults = 0
    /\ up = NoUpload
    /\ fut = [p \in Parts |-> NoFuture]
    /\ rep = [p \in Parts |-> NoReport]
    /\ srv = NoServer
    /\ cmd = NoCommand
    /\ cli = NoProcesses
    /\ op = NoCall
    /\ dev = NoDevice
    /\ wt = NoWait
    /\ pg = NoFetch
    /\ pl = NoPools
    /\ mf = NoCommand
    /\ bk = NoBackoff
    /\ dl = NoDelay
    /\ cr = NoRound
    /\ dr = NoDriver

NextWait ==
    \/ \E c \in WaitCommands, t \in {NoInt, 0, RunTimeout - 1} : WaitStart(c, t)
    \/ \E ans \in RunAnswers, d \in {0, 1} : WaitPoll(ans, d)
    \/ \E ans \in RunAnswers, events \in RunAnswers : WatchPoll(ans, events)
    \/ WaitInterrupt

\* a command that waits for a run
SpecWait == InitWait /\ [][NextWait]_vars

InitFetch ==
    /\ now = StartTime
    /\ tm = NewTokenManager
    /\ eng = [resolved |-> FALSE, env_m2m |-> FALSE]
    /\ file = NoFile
    /\ rq = [t \in Threads |-> IdleRequest]
    /\ nreq = 0
    /\ faults = 0
    /\ up = NoUpload
    /\ fut = [p \in Parts |-> NoFuture]
    /\ rep = [p \in Parts |-> NoReport]
    /\ srv = NoServer
    /\ cmd = NoCommand
    /\ cli = NoProcesses
    /\ op = NoCall
    /\ dev = NoDevice
    /\ wt = NoWait
    /\ pg = NoFetch
    /\ pl = NoPools
    /\ mf = NoCommand
    /\ bk = NoBackoff
    /\ dl = NoDelay
    /\ cr = NoRound
    /\ dr = NoDriver

NextFetch ==
    \/ \E total \in 0..MaxTotal, body \in {"dict", "list"} : FetchStart(total, body)
    \/ FetchPage

\* the collection of a run's results
SpecFetch == InitFetch /\ [][NextFetch]_vars

InitPools ==
    /\ now = StartTime
    /\ tm = NewTokenManager
    /\ eng = [resolved |-> FALSE, env_m2m |-> FALSE]
    /\ file = NoFile
    /\ rq = [t \in Threads |-> IdleRequest]
    /\ nreq = 0
    /\ faults = 0
    /\ up = NoUpload
    /\ fut = [p \in Parts |-> NoFuture]
    /\ rep = [p \in Parts |-> NoReport]
    /\ srv = NoServer
    /\ cmd = NoCommand
    /\ cli = NoProcesses
    /\ op = NoCall
    /\ dev = NoDevice
    /\ wt = NoWait
    /\ pg = NoFetch
    /\ pl = NoPools
    /\ mf = NoCommand
    /\ bk = NoBackoff
    /\ dl = NoDelay
    /\ cr = NoRound
    /\ dr = NoDriver

NextPools ==
    \/ \E n \in 1..PoolParts, c \in 1..MaxPoolConcurrency : PoolsStart(n, c)
    \/ \E p \in 1..PoolParts : PoolTake(p) \/ PoolRetry(p) \/ AckTake(p) \/ AckEnd(p)
    \/ \E p \in 1..PoolParts, ok \in BOOLEAN : PoolPut(p, ok)
    \/ PoolsEnd

\* the two pools of one upload
SpecPools == InitPools /\ [][NextPools]_vars

InitFiles ==
    /\ now = StartTime
    /\ tm = NewTokenManager
    /\ eng = [resolved |-> FALSE, env_m2m |-> FALSE]
    /\ file = NoFile
    /\ rq = [t \in Threads |-> IdleRequest]
    /\ nreq = 0
    /\ faults = 0
    /\ up = NoUpload
    /\ fut = [p \in Parts |-> NoFuture]
    /\ rep = [p \in Parts |-> NoReport]
    /\ srv = NoServer
    /\ cmd = NoCommand
    /\ cli = NoProcesses
    /\ op = NoCall
    /\ dev = NoDevice
    /\ wt = NoWait
    /\ pg = NoFetch
    /\ pl = NoPools
    /\ bk = NoBackoff
    /\ dl = NoDelay
    /\ cr = NoRound
    /\ dr = NoDriver
    /\ mf \in {[NoCommand EXCEPT !.pc = "upload", !.nfiles = n, !.resume = r, !.idx = 1] :
                  n \in 1..MaxDriverFiles, r \in BOOLEAN}

NextFiles == \E o \in UploadOutcomes : FileEnds(o)

\* upload_files on up to MaxDriverFiles files
SpecFiles == InitFiles /\ [][NextFiles]_vars

InitBackoff ==
    /\ now = StartTime
    /\ tm = NewTokenManager
    /\ eng = [resolved |-> FALSE, env_m2m |-> FALSE]
    /\ file = NoFile
    /\ rq = [t \in Threads |-> IdleRequest]
    /\ nreq = 0
    /\ faults = 0
    /\ up = NoUpload
    /\ fut = [p \in Parts |-> NoFuture]
    /\ rep = [p \in Parts |-> NoReport]
    /\ srv = NoServer
    /\ cmd = NoCommand
    /\ cli = NoProcesses
    /\ op = NoCall
    /\ dev = NoDevice
    /\ wt = NoWait
    /\ pg = NoFetch
    /\ pl = NoPools
    /\ mf = NoCommand
    /\ bk = NoBackoff
    /\ dl = NoDelay
    /\ cr = NoRound
    /\ dr = NoDriver

NextBackoff ==
    \/ \E a \in 0..(MAX_TRANSIENT_RETRIES - 1), st \in TRANSIENT_STATUSES \cup {200, 500},
          h \in RetryAfterHeaders : BackoffAnswer(a, st, h)
    \/ \E j \in Jitters : BackoffWait(j)

\* one answer of the transient phase of a request
SpecBackoff == InitBackoff /\ [][NextBackoff]_vars

InitDelay ==
    /\ now = StartTime
    /\ tm = NewTokenManager
    /\ eng = [resolved |-> FALSE, env_m2m |-> FALSE]
    /\ file = NoFile
    /\ rq = [t \in Threads |-> IdleRequest]
    /\ nreq = 0
    /\ faults = 0
    /\ up = NoUpload
    /\ fut = [p \in Parts |-> NoFuture]
    /\ rep = [p \in Parts |-> NoReport]
    /\ srv = NoServer
    /\ cmd = NoCommand
    /\ cli = NoProcesses
    /\ op = NoCall
    /\ dev = NoDevice
    /\ wt = NoWait
    /\ pg = NoFetch
    /\ pl = NoPools
    /\ mf = NoCommand
    /\ bk = NoBackoff
    /\ dl = NoDelay
    /\ cr = NoRound
    /\ dr = NoDriver

NextDelay ==
    \/ \E layer \in Layers, h \in RetryAfterHeaders :
          \E m \in LayerRetries(layer) : \E a \in 0..(m - 1) :
              DelayAttempt(layer, m, a, h)
    \/ \E j \in Jitters : DelaySleep(j)

\* one backoff wait of one retrying layer
SpecDelay == InitDelay /\ [][NextDelay]_vars

InitRound ==
    /\ now = StartTime
    /\ tm = NewTokenManager
    /\ eng = [resolved |-> FALSE, env_m2m |-> FALSE]
    /\ file \in PriorFiles
    /\ rq = [t \in Threads |-> IdleRequest]
    /\ nreq = 0
    /\ faults = 0
    /\ up = NoUpload
    /\ fut = [p \in Parts |-> NoFuture]
    /\ rep = [p \in Parts |-> NoReport]
    /\ srv = NoServer
    /\ cmd = NoCommand
    /\ cli = NoProcesses
    /\ op = NoCall
    /\ dev = NoDevice
    /\ wt = NoWait
    /\ pg = NoFetch
    /\ pl = NoPools
    /\ mf = NoCommand
    /\ bk = NoBackoff
    /\ dl = NoDelay
    /\ cr = NoRound
    /\ dr = NoDriver

NextRound ==
    \/ \E x \in Records : RoundSave(x)
    \/ RoundLoad

\* one record saved over whatever the file held, then loaded
SpecRound == InitRound /\ [][NextRound]_vars

InitDriver ==
    /\ now = StartTime
    /\ tm = NewTokenManager
    /\ eng = [resolved |-> FALSE, env_m2m |-> FALSE]
    /\ file = NoFile
    /\ rq = [t \in Threads |-> IdleRequest]
    /\ nreq = 0
    /\ faults = 0
    /\ up = NoUpload
    /\ fut = [p \in Parts |-> NoFuture]
    /\ rep = [p \in Parts |-> NoReport]
    /\ srv = NoServer
    /\ cmd = NoCommand
    /\ cli = NoProcesses
    /\ op = NoCall
    /\ dev = NoDevice
    /\ wt = NoWait
    /\ pg = NoFetch
    /\ pl = NoPools
    /\ mf = NoCommand
    /\ bk = NoBackoff
    /\ dl = NoDelay
    /\ cr = NoRound
    /\ dr = NoDriver

NextDriver ==
    \/ \E command \in {"run", "batch"}, n \in 1..MaxDriverFiles, b \in 1..MaxBatches :
          DriverStart(command, n, b)
    \/ \E o \in UploadOutcomes : FileEnds(o)
    \/ \E res \in {"ok", "create", "later"} : DriverCreateRun(res)

\* fz run --upload and fz batch: uploads, then the run of each set of files
SpecDriver == InitDriver /\ [][NextDriver]_vars

(***************************************************************************)
(* Properties of the token manager and the HTTP engine.                    *)
(***************************************************************************)
\* C1: get_access_token never hands an expired token to the caller; when the
\* refresh it performed failed, the result is None, so no request is sent
\* with the token it returned.
C1_ExpiredNeverReturned ==
    \A t \in Threads :
        rq[t].pc = "send" => ~rq[t].gatRefreshFailed /\ ~rq[t].tokExpired

\* C2: one call of request makes at most one 401 recovery and at most one
\* replay, and a 401 answered to the replay ends the call with exit code 2.
C2_AtMostOneReplay ==
    \A t \in Threads :
        /\ rq[t].replays <= 1
        /\ rq[t].recoveries <= 1
        /\ rq[t].replayResp.status = 401 =>
              /\ rq[t].pc = "exit"
              /\ rq[t].exit = EXIT_AUTH_FAILURE
              /\ rq[t].replays = 1
              /\ rq[t].recoveries = 1

\* a 401 was answered to a replay
C2_Witness ==
    \E t \in Threads : rq[t].replayResp.status = 401 /\ rq[t].pc = "exit"

\* C3: when the answer that ends the transient-retry phase is a 401 whose
\* WWW-Authenticate names "revoked" in any letter case, the call makes no
\* recovery (no refresh, no re-exchange) and no replay, and exits with code 2,
\* the revoked message and the hint to create new credentials.
C3_RevokedNoRecovery ==
    \A t \in Threads :
        (rq[t].loopResp.status = 401 /\ rq[t].loopResp.www.word = "revoked") =>
            /\ rq[t].recoveries = 0
            /\ rq[t].replays = 0
            /\ rq[t].pc = "exit"
            /\ rq[t].exit = EXIT_AUTH_FAILURE
            /\ rq[t].msg = "Authentication failed - token has been revoked"
            /\ rq[t].hint = "Create new credentials and run fz auth login."

\* a 401 with a mixed-case "Revoked" header ended the retry phase
C3_Witness ==
    \E t \in Threads :
        /\ rq[t].loopResp.status = 401
        /\ rq[t].loopResp.www = [word |-> "revoked", cased |-> "mixed"]
        /\ rq[t].pc = "exit"

(***************************************************************************)
(* Properties of the upload engine.                                        *)
(***************************************************************************)
\* C4: a failed part acknowledgement is not fatal to the upload: an upload
\* whose parts were all uploaded, with no interrupt, is never ended by the
\* failure of POST /parts (SystemExit coming out of the report future).
C4_ReportFailureNonFatal ==
    \A i \in 1..Len(cmd.ended) :
        LET r == cmd.ended[i]
        IN  (r.has_id /\ r.missing = 0 /\ r.first_error = None /\ r.ctrl_c = 0)
                => r.unwind # "sysexit"

\* C5: once an interrupt has set the aborted flag while the handler was
\* installed, the upload never sends POST /complete.
C5_InterruptNeverCompletes ==
    up.ctrl_c >= 1 => ~(rq["main"].kind = "complete" /\ rq["main"].sends > 0)

\* C6: when upload_file raised the aborted error, the command ends with a
\* non-zero exit code.
C6_AbortedExitsNonZero ==
    \A i \in 1..Len(cmd.ended) :
        (cmd.ended[i].outcome = "aborted" /\ cmd.pc = "ended") => cmd.exit # EXIT_SUCCESS

\* the recorded tuples of part pn
Recorded(pn) ==
    {i \in 1..Len(up.uploaded_parts) : up.uploaded_parts[i].pn = pn}

C8_CompleteOrDelete ==
    \A i \in 1..Len(cmd.ended) :
        cmd.ended[i].has_id => cmd.ended[i].completes + cmd.ended[i].deletes = 1

\* C9: no two threads are inside the token manager's refresh (or the
\* engine's re-exchange) at the same time.
C9_TokenOpsSerial ==
    Cardinality({t \in Threads : rq[t].pc \in {"refresh", "exch"}}) <= 1

(***************************************************************************)
(* Properties of the credential store.                                     *)
(***************************************************************************)
\* C10: a load that interleaves with saves finds the complete previous
\* record or a complete saved one; after two saves the file is the record
\* of the process that wrote last.
C10_AtomicRewrite ==
    /\ \A p \in Loaders :
          cli.proc[p].pc = "loaded" =>
              /\ cli.proc[p].got.found
              /\ cli.proc[p].got.data \in
                    {Loads(cli.prev)} \cup {Loads(cli.proc[s].text) : s \in Savers}
    /\ (\A s \in Savers : cli.proc[s].pc = "done") =>
          file.text = cli.proc[cli.last].text

(***************************************************************************)
(* Properties of the token manager and its credentials file, call by call. *)
(***************************************************************************)
\* the last call was a set_tokens or a refresh whose save_credentials returned
Saved == op.name \in {"set_tokens", "refresh"} /\ op.result \in {"ok", "true"}

\* C11: after a save_credentials that returned, whatever was on disk before,
\* the credentials file has mode 0600 and its directory exists.
C11_SavedFileIs0600 ==
    Saved => file.dir /\ file.exists /\ file.mode = MODE_0600

\* a save over a file that had mode 0644
C11_Witness == Saved /\ op.prior_mode = MODE_0644 /\ file.mode = MODE_0600

\* C12 as stated: right after set_tokens(_, _, D) at time T, for every D,
\* is_expired() is false at T.
C12_FreshAtT ==
    (op.name = "set_tokens" /\ now = op.T) => ~is_expired(tm, now)

\* C12: after set_tokens(_, _, D) at time T, is_expired() is true exactly at
\* the times from T + D - 59 onwards; so at T it is false when D >= 60 and
\* already true when D < 60.
C12_ExpiryWindow ==
    op.name = "set_tokens" =>
        /\ is_expired(tm, now) <=> (now >= op.T + op.D - (EXPIRY_SKEW - 1))
        /\ now = op.T => (is_expired(tm, now) <=> op.D < EXPIRY_SKEW)

\* the first second at which a token set with D >= 60 counts as expired
C12_Witness ==
    /\ op.name = "set_tokens" /\ op.D >= EXPIRY_SKEW
    /\ now = op.T + op.D - (EXPIRY_SKEW - 1)
    /\ is_expired(tm, now)

\* load_from_credentials by a new manager that was built for another API URL
Restored ==
    load_from_credentials([NewTokenManager EXCEPT !.api_url = "https://other"],
                          load_credentials(file).data)

\* C13: after set_tokens and after a successful refresh the persisted record
\* is the manager's state: a load_from_credentials restores its access token,
\* refresh token, expiry and API URL.
C13_PersistedIsMemory ==
    Saved =>
        /\ load_credentials(file).found
        /\ Restored.access_token = tm.access_token
        /\ Restored.refresh_token = tm.refresh_token
        /\ Restored.expires_at = tm.expires_at
        /\ Restored.api_url = tm.api_url

\* a refresh rotated the refresh token and the record holds the new one
C13_Witness ==
    /\ op.name = "refresh" /\ op.result = "true"
    /\ op.old_refresh = "rt.1" /\ op.body.refresh_token = "rt.2"
    /\ Restored.refresh_token = "rt.2"

\* C14: after a refresh answered 200 at time T: the access token is the
\* returned one; the refresh token is the returned one, the old one when the
\* answer has none; the expiry is T + expires_in when expires_in is present,
\* else the exp claim of the new access token, else T + 300.
C14_RefreshedState ==
    (op.name = "refresh" /\ op.result = "true") =>
        /\ tm.access_token = op.body.access_token
        /\ tm.refresh_token = IF op.body.refresh_token = "Absent" THEN op.old_refresh
                              ELSE op.body.refresh_token
        /\ tm.expires_at = IF op.body.expires_in # NoInt THEN op.T + op.body.expires_in
                           ELSE IF JwtExp(op.body.access_token) # NoInt
                                THEN JwtExp(op.body.access_token)
                                ELSE op.T + DEFAULT_REFRESH_TTL

\* C15: refresh never raises: it ends returning true or false.
C15_RefreshNeverRaises ==
    op.name = "refresh" => op.result \in {"running", "true", "false"}

(***************************************************************************)
(* Properties of the device authorization flow.                            *)
(***************************************************************************)
\* C16: no layer makes more than 3 attempts for one operation: here the
\* device authorization request, and the token poll that keeps meeting
\* network errors.
C16_AtMostThreeAttempts ==
    /\ dev.attempt + 1 <= 3
    /\ dev.netrun <= 3

\* C20: every poll sleeps the interval of the device authorization answer
\* plus 5 seconds for each slow_down answered before it, and the interval
\* kept for the next poll is that interval plus 5 for each slow_down so far.
C20_SlowDownAddsFive ==
    dev.polls > 0 =>
        /\ dev.poll_interval = dev.interval0 + 5 * dev.slow
        /\ dev.delay = dev.interval0
                       + 5 * (dev.slow - (IF dev.last = "slow_down" THEN 1 ELSE 0))

\* two slow_down answers, then a poll answered authorization_pending
C20_Witness ==
    /\ dev.pc = "poll" /\ dev.slow = 2 /\ dev.last = "authorization_pending"
    /\ dev.delay = dev.interval0 + 10

(***************************************************************************)
(* Properties of FZClient.request: its result and its exit codes.          *)
(***************************************************************************)
\* the answer a call ended on: the replay's when a replay was answered
FinalResp(r) == IF r.replayResp.kind # "none" THEN r.replayResp ELSE r.loopResp

\* the call exited after an HTTP answer or a network error (not in _headers)
FailedRequest(r) ==
    r.pc = "exit" /\ r.msg \notin {NotAuthenticated.msg, NoValidToken.msg}

ExitCodeOf(status) ==
    CASE status = 401 -> EXIT_AUTH_FAILURE
      [] status = 403 -> EXIT_PERMISSION_DENIED
      [] status = 404 -> EXIT_NOT_FOUND
      [] status = 409 -> EXIT_CONFLICT
      [] OTHER -> EXIT_GENERAL_ERROR

\* C18: the exit code of a failed request depends on the final outcome only:
\* 401 -> 2, 403 -> 3, 404 -> 4, 409 -> 5, other 4xx and 5xx -> 1, network
\* error -> 10, and no other code is produced.
C18_ExitCodeOfOutcome ==
    \A t \in Threads :
        FailedRequest(rq[t]) =>
            /\ rq[t].exit = IF rq[t].msg = handle_network_error.msg
                            THEN EXIT_NETWORK_ERROR
                            ELSE ExitCodeOf(FinalResp(rq[t]).status)
            /\ rq[t].exit \in {EXIT_GENERAL_ERROR, EXIT_AUTH_FAILURE,
                               EXIT_PERMISSION_DENIED, EXIT_NOT_FOUND, EXIT_CONFLICT,
                               EXIT_NETWORK_ERROR}

\* a replay answered 409 ends the call with exit code 5
C18_Witness ==
    \E t \in Threads :
        /\ rq[t].pc = "exit" /\ rq[t].replayResp.status = 409
        /\ rq[t].exit = EXIT_CONFLICT

\* C19: when the lazy resolution obtains no tokens, the call ends in
\* sys.exit(EXIT_AUTH_FAILURE) and no API request has been sent.
C19_NoTokensExitsAuthFailure ==
    \A t \in Threads :
        (eng.resolved /\ tm.access_token = None
            /\ rq[t].pc \in {"exit", "raised", "returned"}) =>
                /\ rq[t].pc = "exit"
                /\ rq[t].exit = EXIT_AUTH_FAILURE
                /\ rq[t].sends = 0

(***************************************************************************)
(* C21: the device-flow polling loop terminates. Every turn of the loop    *)
(* begins before the deadline and sleeps for at least the interval the     *)
(* server stated, so the loop makes at most ceil(expires_in / interval)    *)
(* polls; a flow that is polling always ends; and a flow whose polls were  *)
(* all absorbed (authorization_pending, slow_down, network error) ends     *)
(* with the timeout failure, never with tokens.                            *)
(***************************************************************************)
PollsBounded ==
    dev.polls > 0 =>
        /\ dev.polls * dev.interval0 <= dev.clock
        /\ dev.clock - dev.delay < dev.expires_in
        /\ dev.polls <= (dev.expires_in + dev.interval0 - 1) \div dev.interval0

AbsorbedEndsInTimeout ==
    (dev.pc \in {"tokens", "failed", "crashed"} /\ dev.polls > 0
        /\ dev.last \in {"neterr", "authorization_pending", "slow_down"})
    => (dev.pc = "failed" /\ dev.err = "timed out")

C21_PollingTerminates ==
    /\ [](PollsBounded /\ AbsorbedEndsInTimeout)
    /\ (dev.pc = "poll") ~> (dev.pc \in {"tokens", "failed", "crashed"})

\* a flow that polled until the deadline, every poll absorbed, and timed out
C21_Witness ==
    /\ dev.pc = "failed" /\ dev.err = "timed out"
    /\ dev.polls > 1 /\ dev.slow > 0
    /\ dev.last \in {"neterr", "authorization_pending", "slow_down"}

(***************************************************************************)
(* C22: every poll answer is classified as stated: 200 with access_token   *)
(* ends in success; 200 without it is fatal; authorization_pending         *)
(* continues; access_denied and expired_token are fatal; a status >= 400   *)
(* other than 428 with an unrecognized error is fatal and reported as an   *)
(* authentication failure; a network error is absorbed.                    *)
(***************************************************************************)
Recognized == {"authorization_pending", "slow_down", "access_denied", "expired_token"}

C22_PollClassified ==
    dev.polls > 0 =>
        /\ dev.last = "neterr" => dev.verdict = "continue"
        /\ (dev.last # "neterr" /\ dev.status = 200 /\ dev.json /\ dev.token)
              => dev.verdict = "tokens"
        /\ (dev.last # "neterr" /\ dev.status = 200 /\ dev.json /\ ~dev.token)
              => dev.verdict = "failed"
        /\ dev.last = "authorization_pending" => dev.verdict = "continue"
        /\ dev.last \in {"access_denied", "expired_token"} => dev.verdict = "failed"
        /\ (dev.last \notin Recognized \cup {"neterr", "tokens"}
              /\ dev.status >= 400 /\ dev.status # 428)
              => (dev.verdict = "failed" /\ dev.err = "authentication failed")

(***************************************************************************)
(* C23: the run wait loop ends only in one of three ways: it returns the   *)
(* run when a poll reports completed or cancelled, it exits 6 when a poll  *)
(* reports failed, it exits 7 once the elapsed time exceeds the timeout    *)
(* while the status is non-terminal.                                       *)
(***************************************************************************)
WaitEnded ==
    wt.command \in {"runs create", "run", "batch"}
        /\ wt.pc \in {"returned", "exit", "interrupted", "aborted"}

EndsAsStated ==
    \/ wt.pc = "returned" /\ wt.status \in {"completed", "cancelled"}
    \/ wt.pc = "exit" /\ wt.exit = EXIT_RUN_FAILED /\ wt.status = "failed"
    \/ /\ wt.pc = "exit" /\ wt.exit = EXIT_TIMEOUT
       /\ wt.elapsed > wt.timeout_secs /\ wt.status \notin TERMINAL_STATUSES

C23_ThreeEndings == WaitEnded => EndsAsStated

\* C23 as the loop behaves: the three endings are the loop's own; a poll
\* request that fails ends the wait with the engine's exit code for that
\* failure, and an interrupt ends it; a returned run is completed or cancelled.
C23_EndingsOfWait ==
    /\ WaitEnded =>
          \/ EndsAsStated
          \/ /\ wt.pc = "exit" /\ wt.msg = "request failed"
             /\ wt.exit \in {EXIT_GENERAL_ERROR, EXIT_NOT_FOUND, EXIT_NETWORK_ERROR}
          \/ wt.pc \in {"interrupted", "aborted"} /\ wt.interrupted
    /\ (wt.command # "runs watch" /\ wt.pc = "returned")
          => wt.status \in {"completed", "cancelled"}

\* the third poll still reports a running run and the timeout has passed
C23_Witness ==
    /\ wt.command = "run" /\ wt.pc = "exit" /\ wt.exit = EXIT_TIMEOUT
    /\ wt.polls = 3 /\ wt.status = "running" /\ wt.elapsed > wt.timeout_secs

(***************************************************************************)
(* C24: an interrupt received during any run wait or watch loop (runs      *)
(* create --wait, runs watch, run --wait, batch) is caught: the command    *)
(* prints that the run continues on the server and returns cleanly.        *)
(***************************************************************************)
C24_InterruptCaught ==
    wt.interrupted =>
        /\ wt.pc = "interrupted"
        /\ wt.msg = "continues on server"
        /\ wt.exit = NoInt

(***************************************************************************)
(* C25: against a server that holds a fixed total of T results and serves  *)
(* full pages, result collection asks for the offsets 0, 100, 200, ...,    *)
(* stops at the first page where offset + 100 >= T or the page is empty,   *)
(* makes exactly max(1, ceil(T/100)) requests and returns the T results in *)
(* arrival order.                                                          *)
(***************************************************************************)
PagesOf(total) == Max(1, (total + PAGE_LIMIT - 1) \div PAGE_LIMIT)

C25_PagesCollected ==
    pg.body = "dict" =>
        /\ pg.requests <= PagesOf(pg.total)
        /\ pg.offsets = [i \in 1..pg.requests |-> (i - 1) * PAGE_LIMIT]
        /\ pg.pc = "returned" =>
              /\ pg.requests = PagesOf(pg.total)
              /\ pg.results = [i \in 1..pg.total |-> i]

\* 250 results collected in 3 pages of 100, 100 and 50
C25_Witness ==
    /\ pg.body = "dict" /\ pg.pc = "returned" /\ pg.total = 250
    /\ pg.offsets = <<0, 100, 200>> /\ Len(pg.results) = 250

(***************************************************************************)
(* C26: for every completed upload of a file of size S with part size P    *)
(* and parts 1..N presented by init, the sizes recorded and reported for   *)
(* the parts sum to S, each part p < N having size P and part N having     *)
(* size S - (N-1)P (0 for an empty single-part file).                      *)
(***************************************************************************)
RECURSIVE SumOver(_, _)
SumOver(f, S) ==
    IF S = {} THEN 0
    ELSE LET x == CHOOSE y \in S : TRUE IN f[x] + SumOver(f, S \ {x})

\* the size the claim gives to part pn of the N parts of a file of size S
StatedSize(pn, N, S) == IF pn < N THEN PartSize ELSE S - (N - 1) * PartSize

\* the uploads that completed with every part of the file listed
CompletedWhole ==
    {i \in 1..Len(cmd.ended) :
        /\ cmd.ended[i].outcome = "doc"
        /\ cmd.ended[i].urls = 1..cmd.ended[i].total_parts}

SizesRecorded(e) ==
    /\ {e.uploaded_parts[k].pn : k \in 1..Len(e.uploaded_parts)} = e.urls
    /\ \A k \in 1..Len(e.uploaded_parts) :
          e.uploaded_parts[k].size
              = StatedSize(e.uploaded_parts[k].pn, e.total_parts, e.file_size)
    /\ SumOver([k \in 1..Len(e.uploaded_parts) |-> e.uploaded_parts[k].size],
               1..Len(e.uploaded_parts)) = e.file_size

InFlight(items, st) == Cardinality({p \in DOMAIN items : items[p] = st})

C27_PoolsBounded ==
    pl.pc = "loop" =>
        /\ InFlight(pl.put, "put") <= pl.concurrency
        /\ InFlight(pl.ack, "post") <= REPORT_WORKERS

\* every upload worker has a PUT in flight while a part waits for a worker,
\* and two acknowledgements are in flight while a third one is queued
C27_Witness ==
    /\ pl.pc = "loop"
    /\ InFlight(pl.put, "put") = pl.concurrency /\ InFlight(pl.put, "pending") >= 1
    /\ InFlight(pl.ack, "post") = REPORT_WORKERS /\ InFlight(pl.ack, "queued") >= 1

(***************************************************************************)
(* C28: when resume is requested for a multi-part upload whose status      *)
(* reports partsUploaded == totalParts, the engine fetches the resume URL  *)
(* list, sends no part PUT and no part acknowledgement, and issues POST    *)
(* /complete directly: no part is recorded, no DELETE is sent, and the     *)
(* request that follows the resume request is the complete request.        *)
(***************************************************************************)
C28_ResumeOfWholeCompletes ==
    /\ (up.resumed /\ srv.partsUploaded = up.total_parts) =>
          /\ \A p \in Parts : fut[p] = NoFuture /\ rep[p] = NoReport
          /\ up.uploaded_parts = <<>> /\ up.first_error = None
          /\ up.pc \in {"loop", "wait", "drain", "complete"}
          /\ rq["main"].kind \in {"resume", "complete"} \/ rq["main"].pc = "idle"
    /\ \A i \in 1..Len(cmd.ended) :
          LET e == cmd.ended[i]
          IN  (e.resumed /\ e.partsUploaded = e.total_parts) =>
                 /\ e.uploaded_parts = <<>> /\ e.reported = <<>>
                 /\ e.deletes = 0
                 /\ e.outcome = "doc" => e.completes = 1
                 /\ e.outcome \in {"doc", "sysexit", "error", "kbd"}

\* a resumed upload of two parts, both uploaded before, that completed
C28_Witness ==
    \E i \in 1..Len(cmd.ended) :
        /\ cmd.ended[i].resumed /\ cmd.ended[i].total_parts = MaxParts
        /\ cmd.ended[i].partsUploaded = MaxParts
        /\ cmd.ended[i].outcome = "doc" /\ cmd.ended[i].completes = 1

(***************************************************************************)
(* C29: the multi-file driver uploads the files one at a time in the given *)
(* order; after the first file whose upload fails with a non-cancellation  *)
(* error (a part failure, an API error in init or complete) no later file  *)
(* is started, and upload_files returns the documents of the files that    *)
(* succeeded before it.                                                    *)
(***************************************************************************)
C29_FailureReturnsDocuments ==
    \A i \in 1..Len(mf.ended) :
        mf.ended[i].outcome \in {"error", "sysexit"} =>
            /\ i = Len(mf.ended)
            /\ \A j \in 1..(i - 1) : mf.ended[j].outcome = "doc"
            /\ mf.pc = "ended" /\ mf.documents = i - 1
            /\ mf.exit = EXIT_SUCCESS

(***************************************************************************)
(* C30: when a transient response (429, 502, 503, 504) that will be        *)
(* retried carries a Retry-After value of r seconds, the engine waits      *)
(* max(d, r) before the next attempt, d being the computed backoff delay:  *)
(* the wait is never shorter than r and never shorter than d.              *)
(***************************************************************************)
C30_RetryAfterRaisesWait ==
    (bk.pc \in {"slept", "raised", "left"} /\ bk.status \in TRANSIENT_STATUSES
        /\ bk.attempt < MAX_TRANSIENT_RETRIES - 1 /\ bk.header.kind = "seconds")
    => LET d == TransientDelay(bk.attempt, bk.jitter)
           r == bk.header.value
       IN  /\ bk.pc = "slept"
           /\ bk.wait = (IF d >= r THEN d ELSE r)
           /\ bk.wait >= r /\ bk.wait >= d

\* a first transient answer with Retry-After: 5 is followed by a wait of 5
\* seconds, not of the 1.9 seconds computed
C30_Witness ==
    /\ bk.pc = "slept" /\ bk.status = 503 /\ bk.header.kind = "seconds"
    /\ bk.attempt = 0 /\ bk.header.value = 50 /\ bk.jitter = 9 /\ bk.wait = 50

\* C31 (as stated): in every retrying layer the delay slept after attempt i
\* in {0, 1, 2} lies in [base[i], base[i] + 1] seconds with base = [1, 2, 4],
\* and no computed backoff delay exceeds 30 seconds.
C31_DelayUsedInRange ==
    dl.pc = "slept"
    => /\ dl.computed <= MAX_TRANSIENT_DELAY
       /\ dl.attempt < Len(BASE_DELAYS)
          => /\ BASE_DELAYS[dl.attempt + 1] <= dl.wait
             /\ dl.wait <= BASE_DELAYS[dl.attempt + 1] + 10

\* C31 (amended): the delay a layer's backoff function computes after attempt
\* i in {0, 1, 2} lies in [base[i], base[i] + 1] seconds and never exceeds 30
\* seconds for any attempt; the layer sleeps exactly that delay, except that
\* FZClient.request sleeps a Retry-After number of seconds that is larger.
C31_ComputedDelayInRange ==
    dl.pc = "slept"
    => /\ dl.computed <= MAX_TRANSIENT_DELAY
       /\ dl.attempt < Len(BASE_DELAYS)
          => /\ BASE_DELAYS[dl.attempt + 1] <= dl.computed
             /\ dl.computed <= BASE_DELAYS[dl.attempt + 1] + 10
       /\ \/ dl.wait = dl.computed
          \/ /\ dl.layer = "client"
             /\ dl.header.kind = "seconds"
             /\ dl.header.value > dl.computed
             /\ dl.wait = dl.header.value

\* an upload configured with seven attempts sleeps the clipped 30 seconds
\* after its sixth
C31_Witness ==
    /\ dl.pc = "slept"
    /\ dl.layer = "upload"
    /\ dl.attempt = 5
    /\ dl.computed = MAX_TRANSIENT_DELAY
    /\ dl.wait = MAX_TRANSIENT_DELAY

(***************************************************************************)
(* C32: round trip of the credential store: for every record x with the    *)
(* required fields (access_token, refresh_token possibly null, expires_at, *)
(* api_url, optional client_id), save_credentials(x) followed by           *)
(* load_credentials() returns a record equal to x, whatever was stored     *)
(* before.                                                                 *)
(***************************************************************************)
C32_SaveLoadRoundTrip ==
    cr.pc = "loaded" => cr.found /\ cr.data = AsDict(cr.x)

(***************************************************************************)
(* C33: the custom SIGINT handler of the upload engine is scoped to the    *)
(* upload region: on every exit from upload_file (normal completion,       *)
(* cancellation, part failure, or a process exit raised inside the region) *)
(* the SIGINT handler in force is the one that was installed before        *)
(* upload_file was called, and a second interrupt during the region        *)
(* restores that handler before re-raising the interrupt.                  *)
(***************************************************************************)
C33_HandlerScoped ==
    /\ \A i \in 1..Len(cmd.ended) : cmd.ended[i].handler = "default"
    /\ up.ctrl_c = 2 => up.handler = "default"
    /\ up.handler = "custom" => up.pc \in {"loop", "result", "wait", "drain", "delete"}

\* an upload left by a process exit inside the region, after one interrupt
C33_Witness ==
    \E i \in 1..Len(cmd.ended) :
        /\ cmd.ended[i].outcome = "sysexit"
        /\ cmd.ended[i].ctrl_c = 1
        /\ cmd.ended[i].handler = "default"

(***************************************************************************)
(* C34: upload workers poll the aborted flag before every attempt: once    *)
(* the flag is set, every part attempt that begins afterwards (first       *)
(* attempt or retry) raises the aborted error without sending a PUT, while *)
(* PUTs already in flight are allowed to finish.                           *)
(***************************************************************************)
C34_AbortedPolledStep ==
    \A p \in Parts :
        (up.aborted /\ fut'[p].st # fut[p].st)
        => /\ fut[p].st \in {"pending", "sleep"}
              => fut'[p].st \in {"aborted", "cancelled"}
           /\ fut[p].st = "put"
              => fut'[p].st \in {"done", "sleep", "failed"}

C34_AbortedPolled == [][C34_AbortedPolledStep]_vars

\* with the flag set, a retry has raised the aborted error and another
\* part's PUT has finished
C34_Witness ==
    /\ up.aborted
    /\ \E p \in Parts : fut[p].st = "aborted" /\ fut[p].attempt = 1
    /\ \E q \in Parts : fut[q].st = "done"

(***************************************************************************)
(* C35: for every upload, each part number is acknowledged to the backend  *)
(* (POST /parts with that partNumber) at most once; in an upload of N      *)
(* parts with no failure and no interrupt the engine sends exactly N part  *)
(* PUTs, exactly N POSTs to /parts (one per part number) and exactly one   *)
(* POST to /complete.                                                      *)
(***************************************************************************)
C35_PartAckedOnce ==
    /\ \A p \in Parts : srv.acks[p] <= 1
    /\ \A w \in ReportWorkers : rq[w].kind = "parts" => rq[w].sends <= 1
    /\ \A i \in 1..Len(cmd.ended) :
          LET r == cmd.ended[i]
          IN  (r.outcome = "doc" /\ r.ctrl_c = 0 /\ ~r.resumed /\ faults = UploadFaults)
              => /\ Len(r.uploaded_parts) = r.total_parts
                 /\ DOMAIN r.reported = 1..r.total_parts
                 /\ r.completes = 1

(***************************************************************************)
(* C36: a failed TokenManager.refresh changes nothing: when refresh        *)
(* returns false (no refresh token, exhausted retries, non-200 status,     *)
(* invalid body, missing access_token), the in-memory access token,        *)
(* refresh token and expiry are exactly as before the call and the         *)
(* credentials file is not rewritten.  As a property of every step of a    *)
(* refresh call that is still running or has returned false.               *)
(***************************************************************************)
C36_FailedRefreshStep ==
    (op'.name = "refresh" /\ op'.result \in {"running", "false"})
    => /\ tm'.access_token = tm.access_token
       /\ tm'.refresh_token = tm.refresh_token
       /\ tm'.expires_at = tm.expires_at
       /\ file' = file

C36_FailedRefreshChangesNothing == [][C36_FailedRefreshStep]_vars

\* a refresh of a loaded manager has returned false after its third attempt
C36_Witness ==
    /\ op.name = "refresh" /\ op.result = "false"
    /\ op.attempt = MAX_REFRESH_RETRIES - 1
    /\ tm.refresh_token # None /\ tm.access_token # None
    /\ file.exists

(***************************************************************************)
(* C37: when the upload coordinator issues POST /complete or DELETE        *)
(* /api/uploads/{id}, no part PUT and no part acknowledgement of that      *)
(* upload is still in flight: both worker pools have fully drained first,  *)
(* in the success path, the cancellation path and the part-failure path.   *)
(***************************************************************************)
C37_PoolsDrainedFirst ==
    (rq["main"].kind \in {"complete", "delete"} /\ rq["main"].pc # "idle")
    => /\ \A p \in Parts : fut[p].st \notin {"pending", "put", "sleep"}
       /\ \A p \in Parts : rep[p].st \notin {"queued", "running"}
       /\ \A w \in ReportWorkers : rq[w].pc = "idle"

\* the DELETE of the part-failure path is being sent after an acknowledgement
\* of another part was posted and answered
C37_Witness ==
    /\ rq["main"].kind = "delete" /\ rq["main"].pc = "send"
    /\ up.first_error = "error"
    /\ \E p \in Parts : rep[p].st = "done" /\ rep[p].acked

(***************************************************************************)
(* C38: one call of FZClient.request sends at most 4 HTTP requests to the  *)
(* API: at most 3 in the transient-retry phase and at most 1 replay after  *)
(* a 401; the replayed request is never retried, so a transient status or  *)
(* network error on the replay is surfaced immediately.                    *)
(***************************************************************************)
C38_AtMostFourSends ==
    \A t \in Threads :
        /\ rq[t].sends <= 4
        /\ rq[t].sends - rq[t].replays <= MAX_TRANSIENT_RETRIES
        /\ rq[t].replays <= 1
        /\ rq[t].replays = 1 => rq[t].pc \in {"send", "returned", "exit"}
        /\ (rq[t].replays = 1 /\ rq[t].pc # "send")
           => CASE rq[t].replayResp.kind = "none" ->
                     \* the replay met a network error: no answer is kept
                     rq[t].pc = "exit" /\ rq[t].exit = EXIT_NETWORK_ERROR
                [] rq[t].replayResp.status >= 400 -> rq[t].pc = "exit"
                [] OTHER -> rq[t].pc = "returned"

\* three sends in the retry phase, the last one answered 401, and the replay
\* answered 503: the call ends there with its fourth send
C38_Witness ==
    /\ rq["main"].sends = 4 /\ rq["main"].replays = 1
    /\ rq["main"].loopResp.status = 401
    /\ rq["main"].replayResp.status = 503
    /\ rq["main"].pc = "exit"

(***************************************************************************)
(* C39: in M2M mode the stored credentials record of a device-flow login   *)
(* is left unchanged: an engine that authenticates with FZ_CLIENT_ID /     *)
(* FZ_CLIENT_SECRET (initial exchange, re-exchange on expiry, re-exchange  *)
(* on 401) never writes the credentials file.                              *)
(***************************************************************************)
C39_M2MStep == eng.env_m2m => file' = file

C39_M2MNeverWrites == [][C39_M2MStep]_vars

(***************************************************************************)
(* C40: in the run and batch drivers, a run is created for a set of files  *)
(* only if every one of those files was uploaded successfully; after an    *)
(* upload of the set that was cancelled or failed (upload_files returned   *)
(* fewer documents than files) no run is created for it.                   *)
(***************************************************************************)
C40_RunOnlyAfterFullUpload ==
    \A i \in 1..Len(dr.runs) : dr.runs[i].documents = dr.runs[i].files

====
